---- MODULE Spec2Model ----
(***************************************************************************)
(* Automa-BE: the document extraction pipeline and its endpoints.          *)
(*                                                                         *)
(* Python values are modelled as tagged records, so that values of         *)
(* different Python types can be compared (None with a str, a list with a  *)
(* dict) the way Python's == and != compare them.                          *)
(***************************************************************************)
EXTENDS Integers, Sequences, FiniteSets, TLC

VARIABLES
    \* ---- page merge of create_template_to_data (template_upload.py) ----
    expected_keys,        \* list(template_parsed_data.keys())
    pages,                \* the page results iterated so far, in page order
    merged_key_values,    \* the running merged dict (insertion ordered)
    flattened_extracted_result,  \* the flattened dict, once built
    mpc,                  \* "loop", "done" (merge completed) or "error" (it raised)
    \* ---- the inference functions (ai_extraction_service.py, template_processing.py) ----
    infer_fn,             \* the function called
    response,             \* what the inference backend does: raises, or answers a text
    ai_result,            \* what the function returned or raised, once called
    ipc,                  \* "call" or "returned"
    \* ---- the orchestrators: process_template and process_pdf ----
    orchestrator,         \* "process_template" or "process_pdf"
    document,             \* the file at pdf_path: readable or not, its page count
    ppc,                  \* the stage about to run, or "returned" / "raised"
    n_pages,              \* len(pages) once rasterized
    idx,                  \* the page being processed, from 1
    results,              \* process_template's results / process_pdf's combined_text
    ai_extraction,        \* process_template's ai_result of the current page
    backend,              \* the backend's behaviour at each inference call so far
    stage_log,            \* the stages run so far, <<stage, page, outcome>>, in order
    failure,              \* the exception that ended the run: [stage, page, exc]
    returned,             \* the value returned
    written,              \* the files the run has written
    \* ---- the endpoints: create_template, create_template_to_data, parse_invoice ----
    request,              \* the endpoint called, the credentials and what was uploaded
    current_user,         \* the user get_current_user resolved, None before
    rpc,                  \* the statement about to run, or "done"
    disk,                 \* the files the endpoint itself has put on the disk
    created,              \* every file the endpoint itself has created
    http_status,          \* the status of the response, 0 before it
    stored,               \* an extraction result was stored in the database
    persisted,            \* the calls of create_extraction_result, in order
    \* ---- template-guided inference: extract_key_values_with_ai_for_template ----
    template_parsed_data, \* the expected fields, in the template's order
    word_positions,       \* the words recognised on the page, with their boxes
    guided_response,      \* what the backend does: raises, or answers a text
    guided_result,        \* what the function returned or raised, once called
    gpc,                  \* "call" or "returned"
    \* ---- word recognition: extract_word_positions (ocr_service.py, template_processing.py) ----
    words_fn,             \* the module whose extract_word_positions is called
    data,                 \* what image_to_data does: raises, or returns the detections
    positions,            \* what the function returned or raised, once called
    wpc,                  \* "call" or "returned"
    \* ---- the label of an annotation: annotate_from_ai_response ----
    pos_y,                \* position["y"] of the field extraction being drawn
    text_height,          \* the height cv2.getTextSize gives for the key
    text_y,               \* the baseline of the label, once placed
    lpc,                  \* "draw" or "placed"
    \* ---- the annotation renderer: annotate_from_ai_response ----
    image,                \* the array the caller passes: the marks drawn on the page image
    ai_response,          \* the inference result the caller passes
    annotated_image,      \* the array the renderer draws on, once made
    item_no,              \* the index of the item the for loop is at, from 1
    warnings,             \* the items logged with logger.warning, in order
    saved,                \* the image files written
    apc,                  \* "call", "loop", "returned" or "raised"
    \* ---- the template table: save_template and list_templates (template_management.py) ----
    template_rows,        \* the rows of the templates table, in insertion order
    listing_user,         \* the current_user of the last list_templates request
    listing,              \* the templates that request was answered with
    \* ---- concurrent requests to the template endpoints (template_upload.py) ----
    uploads,              \* the requests being served: endpoint, template name or id, file name
    cpc,                  \* for each request the statement it is at, or "done"
    files,                \* the files of the working directory: path and content (whose upload)
    processed,            \* for each request the upload its extraction read, 0 before
    answers,              \* for each request the status of its response, 0 before
    \* ---- signup and login (api/endpoints/auth.py) ----
    platform_users,       \* the committed rows of platform_users
    user_credentials,     \* the committed rows of user_credentials
    signup_data,          \* the body of the request being served
    new_user,             \* the PlatformUser row signup has added, once committed
    spc,                  \* the statement the request is at, "ready" between requests
    auth_status,          \* the status of the last response
    served                \* the number of requests served or being served

mergeVars == <<expected_keys, pages, merged_key_values, flattened_extracted_result, mpc>>
inferVars == <<infer_fn, response, ai_result, ipc>>

pipeVars == <<orchestrator, document, ppc, n_pages, idx, results, ai_extraction,
              backend, stage_log, failure, returned, written>>

reqVars == <<request, current_user, rpc, disk, created, http_status, stored, persisted>>

guidedVars == <<template_parsed_data, word_positions, guided_response, guided_result, gpc>>

wordsVars == <<words_fn, data, positions, wpc>>

labelVars == <<pos_y, text_height, text_y, lpc>>

annotVars == <<image, ai_response, annotated_image, item_no, warnings, saved, apc>>

tenantVars == <<template_rows, listing_user, listing>>

concVars == <<uploads, cpc, files, processed, answers>>

signupVars == <<platform_users, user_credentials, signup_data, new_user, spc, auth_status, served>>

vars == <<mergeVars, inferVars, pipeVars, reqVars, guidedVars, wordsVars, labelVars, annotVars, tenantVars, concVars, signupVars>>

\* What each part of the model leaves alone.
notMerge == <<inferVars, pipeVars, reqVars, guidedVars, wordsVars, labelVars, annotVars, tenantVars, concVars, signupVars>>
notInfer == <<mergeVars, pipeVars, reqVars, guidedVars, wordsVars, labelVars, annotVars, tenantVars, concVars, signupVars>>
notPipe == <<mergeVars, inferVars, reqVars, guidedVars, wordsVars, labelVars, annotVars, tenantVars, concVars, signupVars>>
notReq == <<mergeVars, inferVars, pipeVars, guidedVars, wordsVars, labelVars, annotVars, tenantVars, concVars, signupVars>>
notGuided == <<mergeVars, inferVars, pipeVars, reqVars, wordsVars, labelVars, annotVars, tenantVars, concVars, signupVars>>
notPipeNorReq == <<mergeVars, inferVars, guidedVars, wordsVars, labelVars, annotVars, tenantVars, concVars, signupVars>>
notMergeNorReq == <<inferVars, pipeVars, guidedVars, wordsVars, labelVars, annotVars, tenantVars, concVars, signupVars>>
notWords == <<mergeVars, inferVars, pipeVars, reqVars, guidedVars, labelVars, annotVars, tenantVars, concVars, signupVars>>
notLabel == <<mergeVars, inferVars, pipeVars, reqVars, guidedVars, wordsVars, annotVars, tenantVars, concVars, signupVars>>
notAnnot == <<mergeVars, inferVars, pipeVars, reqVars, guidedVars, wordsVars, labelVars, tenantVars, concVars, signupVars>>
notTenant == <<mergeVars, inferVars, pipeVars, reqVars, guidedVars, wordsVars, labelVars, annotVars, concVars, signupVars>>
notConc == <<mergeVars, inferVars, pipeVars, reqVars, guidedVars, wordsVars, labelVars, annotVars, tenantVars, signupVars>>
notSignup == <<mergeVars, inferVars, pipeVars, reqVars, guidedVars, wordsVars, labelVars, annotVars, tenantVars, concVars>>

(***************************************************************************)
(* Bounds of the model.                                                    *)
(***************************************************************************)
MaxPages == 2
MaxEntries == 2
MaxTokens == 4

(***************************************************************************)
(* Python values.                                                          *)
(***************************************************************************)
None == [t |-> "None"]
Str(s) == [t |-> "str", s |-> s]
Num(n) == [t |-> "int", n |-> n]
List(xs) == [t |-> "list", xs |-> xs]
Dict(f) == [t |-> "dict", f |-> f]

IsDict(v) == v.t = "dict"
IsList(v) == v.t = "list"
IsStr(v) == v.t = "str"

\* dict.get(name, default)
GetOr(d, name, default) == IF name \in DOMAIN d.f THEN d.f[name] ELSE default
\* dict.get(name): None when the key is missing
Get(d, name) == GetOr(d, name, None)

NA == Str("N/A")
EmptyDict == Dict([x \in {} |-> None])
EmptyList == List(<<>>)

(***************************************************************************)
(* An insertion-ordered Python dict keyed by arbitrary values: a sequence  *)
(* of [k, v] entries. d[k] = v replaces the entry of k in place, or        *)
(* appends a new entry when k is not a key yet.                            *)
(***************************************************************************)
HasKey(od, k) == \E i \in 1..Len(od) : od[i].k = k
Lookup(od, k) == od[CHOOSE i \in 1..Len(od) : od[i].k = k].v
SetItem(od, k, v) ==
    IF HasKey(od, k)
    THEN [i \in 1..Len(od) |-> IF od[i].k = k THEN [k |-> k, v |-> v] ELSE od[i]]
    ELSE Append(od, [k |-> k, v |-> v])
Keys(od) == {od[i].k : i \in 1..Len(od)}
\* list(od.values())
Values(od) == [i \in 1..Len(od) |-> od[i].v]

(***************************************************************************)
(* A call either returns a value or raises.                                *)
(***************************************************************************)
Ok(v) == [raised |-> FALSE, val |-> v]
Raise(e) == [raised |-> TRUE, exc |-> e]

(***************************************************************************)
(* Page merge: create_template_to_data, template_upload.py lines 150-178.  *)
(***************************************************************************)
InvoiceNumber == Str("Invoice Number")
Total == Str("Total")

\* The templates the merge is run for: template_format's keys, in order. Under
\* the second, "Invoice Number" is a field outside the template.
Templates == {<<InvoiceNumber, Total>>, <<Total>>}

BoxA == Dict([x |-> Num(100), y |-> Num(200), w |-> Num(150), h |-> Num(30)])
BoxB == Dict([x |-> Num(10), y |-> Num(25), w |-> Num(30), h |-> Num(10)])

\* The field extractions a page's key_values may hold: for each field a value
\* that is "N/A" (with or without a position), empty, null or a text; an entry
\* with no "value" at all; and an item that is no dict.
FieldKeys == {InvoiceNumber, Total}
Observations ==
    { <<NA, None>>, <<NA, BoxA>>, <<Str(""), BoxA>>, <<None, None>>,
      <<Str("V1"), BoxA>>, <<Str("V2"), BoxB>> }
KVs ==
    {Dict([key |-> k, value |-> o[1], position |-> o[2]]) :
        k \in FieldKeys, o \in Observations}
    \cup {Dict([key |-> k, position |-> BoxA]) : k \in FieldKeys}
Items == KVs \cup {Str("x")}

Sentinel == Dict([message |-> Str("Failed to extract data using AI.")])

\* A page result as the merge finds it: with an ai_extraction that holds a
\* key_values list (its items are iterated one by one), the sentinel, no
\* ai_extraction, an ai_extraction that is no dict, or a key_values of null.
OpenPage == Dict([ai_extraction |-> Dict([key_values |-> EmptyList])])
PageShapes ==
    { OpenPage,
      Dict([ai_extraction |-> Sentinel]),
      Dict([x \in {} |-> None]),
      Dict([ai_extraction |-> EmptyList]),
      Dict([ai_extraction |-> Dict([key_values |-> None])]) }

\* {key: {"key": key, "value": "N/A", "position": None} for key in expected_keys}
RECURSIVE DefaultMerged(_, _)
DefaultMerged(keys, od) ==
    IF keys = <<>> THEN od
    ELSE DefaultMerged(Tail(keys),
            SetItem(od, Head(keys),
                Dict([key |-> Head(keys), value |-> NA, position |-> None])))

\* Mutant: page["ai_extraction"]["key_values"], with no defaults.
key_values_of_no_default(page) ==
    IF "ai_extraction" \notin DOMAIN page.f THEN Raise("KeyError")
    ELSE LET ai == page.f.ai_extraction IN
         IF ~IsDict(ai) THEN Raise("TypeError")
         ELSE IF "key_values" \notin DOMAIN ai.f THEN Raise("KeyError")
         ELSE IF ~IsList(ai.f.key_values) THEN Raise("TypeError")
         ELSE Ok(ai.f.key_values)

\* page.get("ai_extraction", {}).get("key_values", [])
key_values_of(page) ==
    LET ai == GetOr(page, "ai_extraction", EmptyDict) IN
    IF ~IsDict(ai) THEN Raise("AttributeError")
    ELSE LET kvs == GetOr(ai, "key_values", EmptyList) IN
         IF ~IsList(kvs) THEN Raise("TypeError") ELSE Ok(kvs)

\* Mutant: the membership test "key in merged_key_values" is dropped.
ShouldUpdate_any_key(od, key, value) ==
    /\ value # NA
    /\ HasKey(od, key) => Lookup(od, key).f.value = NA

\* Mutant: the test value != "N/A" is dropped.
ShouldUpdate_any_value(od, key, value) ==
    /\ HasKey(od, key)
    /\ Lookup(od, key).f.value = NA

\* Mutant: the test on the stored value is dropped, the last value wins.
ShouldUpdate_last_wins(od, key, value) ==
    /\ HasKey(od, key)
    /\ value # NA

\* key in merged_key_values and value != "N/A"
\*     and merged_key_values[key]["value"] == "N/A"
ShouldUpdate(od, key, value) ==
    /\ HasKey(od, key)
    /\ value # NA
    /\ Lookup(od, key).f.value = NA

\* The body of "for kv in key_values": lines 163-169.
MergeKV(od, kv) ==
    IF ~IsDict(kv) THEN Raise("AttributeError")
    ELSE LET key == Get(kv, "key")
             value == Get(kv, "value")
             position == Get(kv, "position")
         IN Ok(IF ShouldUpdate(od, key, value)
               THEN SetItem(od, key,
                        Dict([key |-> key, value |-> value, position |-> position]))
               ELSE od)

\* Mutant: the whole entry is kept, position included.
RECURSIVE Flatten_keeping_entries(_, _)
Flatten_keeping_entries(final_key_values, od) ==
    IF final_key_values = <<>> THEN od
    ELSE Flatten_keeping_entries(Tail(final_key_values),
            SetItem(od, Head(final_key_values).f.key, Head(final_key_values)))

\* {kv["key"]: kv["value"] for kv in final_key_values}
RECURSIVE Flatten(_, _)
Flatten(final_key_values, od) ==
    IF final_key_values = <<>> THEN od
    ELSE Flatten(Tail(final_key_values),
            SetItem(od, Head(final_key_values).f.key, Head(final_key_values).f.value))

\* The merge of create_template_to_data as a function of the pages list:
\* the two loops of lines 160-169 over the dict of line 157.
RECURSIVE merge_key_values(_, _)
merge_key_values(od, kvs) ==
    IF kvs = <<>> THEN Ok(od)
    ELSE LET r == MergeKV(od, Head(kvs)) IN
         IF r.raised THEN r ELSE merge_key_values(r.val, Tail(kvs))
RECURSIVE merge_pages_from(_, _)
merge_pages_from(od, ps) ==
    IF ps = <<>> THEN Ok(od)
    ELSE LET kvs == key_values_of(Head(ps)) IN
         IF kvs.raised THEN kvs
         ELSE LET r == merge_key_values(od, kvs.val.xs) IN
              IF r.raised THEN r ELSE merge_pages_from(r.val, Tail(ps))
merge_pages(expected, ps) == merge_pages_from(DefaultMerged(expected, <<>>), ps)

RECURSIVE EntriesIn(_)
EntriesIn(ps) ==
    IF ps = <<>> THEN 0
    ELSE LET kvs == key_values_of(Head(ps)) IN
         (IF kvs.raised THEN 0 ELSE Len(kvs.val.xs)) + EntriesIn(Tail(ps))

\* The page whose key_values are being iterated: the last one, when it has any.
LastIsOpen == pages # <<>> /\ ~key_values_of(pages[Len(pages)]).raised

\* key_values with one more item.
WithItem(page, item) ==
    Dict([ai_extraction |->
        Dict([key_values |-> List(Append(page.f.ai_extraction.f.key_values.xs, item))])])

\* The merge is not running.
MergeIdle ==
    /\ expected_keys = <<>>
    /\ pages = <<>>
    /\ merged_key_values = <<>>
    /\ flattened_extracted_result = <<>>
    /\ mpc = "idle"

\* No inference function is being called.
InferIdle ==
    /\ infer_fn = "none"
    /\ response = None
    /\ ai_result = None
    /\ ipc = "idle"

\* No orchestrator is running.
PipeIdle ==
    /\ orchestrator = "none"
    /\ document = None
    /\ ppc = "idle"
    /\ n_pages = 0
    /\ idx = 0
    /\ results = <<>>
    /\ ai_extraction = None
    /\ backend = <<>>
    /\ stage_log = <<>>
    /\ failure = None
    /\ returned = None
    /\ written = {}

\* No endpoint has been called.
ReqIdle ==
    /\ request = None
    /\ current_user = None
    /\ rpc = "idle"
    /\ disk = {}
    /\ created = {}
    /\ http_status = 0
    /\ stored = FALSE
    /\ persisted = <<>>

GuidedIdle ==
    /\ template_parsed_data = <<>>
    /\ word_positions = <<>>
    /\ guided_response = None
    /\ guided_result = None
    /\ gpc = "idle"

WordsIdle ==
    /\ words_fn = "none"
    /\ data = None
    /\ positions = None
    /\ wpc = "idle"

LabelIdle ==
    /\ pos_y = 0
    /\ text_height = 0
    /\ text_y = 0
    /\ lpc = "idle"

AnnotIdle ==
    /\ image = <<>>
    /\ ai_response = None
    /\ annotated_image = None
    /\ item_no = 0
    /\ warnings = <<>>
    /\ saved = {}
    /\ apc = "idle"

TenantIdle ==
    /\ template_rows = <<>>
    /\ listing_user = None
    /\ listing = None

ConcIdle ==
    /\ uploads = <<>>
    /\ cpc = <<>>
    /\ files = {}
    /\ processed = <<>>
    /\ answers = <<>>

SignupIdle ==
    /\ platform_users = {}
    /\ user_credentials = {}
    /\ signup_data = None
    /\ new_user = None
    /\ spc = "idle"
    /\ auth_status = 0
    /\ served = 0

MergeInit ==
    /\ InferIdle
    /\ PipeIdle
    /\ ReqIdle
    /\ GuidedIdle
    /\ WordsIdle
    /\ LabelIdle
    /\ AnnotIdle
    /\ TenantIdle
    /\ ConcIdle
    /\ SignupIdle
    /\ expected_keys \in Templates
    /\ pages = <<>>
    /\ merged_key_values = DefaultMerged(expected_keys, <<>>)
    /\ flattened_extracted_result = <<>>
    /\ mpc = "loop"

\* "for page in pages": the next page, and its key_values lookup.
MergeNextPage(page) ==
    /\ mpc = "loop"
    /\ Len(pages) < MaxPages
    /\ pages' = Append(pages, page)
    /\ mpc' = IF key_values_of(page).raised THEN "error" ELSE "loop"
    /\ UNCHANGED <<expected_keys, merged_key_values, flattened_extracted_result>>
    /\ UNCHANGED notMerge

\* "for kv in key_values": the next item of the current page.
MergeNextKV(item) ==
    /\ mpc = "loop"
    /\ LastIsOpen
    /\ "key_values" \in DOMAIN GetOr(pages[Len(pages)], "ai_extraction", EmptyDict).f
    /\ EntriesIn(pages) < MaxEntries
    /\ pages' = [pages EXCEPT ![Len(pages)] = WithItem(@, item)]
    /\ LET r == MergeKV(merged_key_values, item) IN
         IF r.raised
         THEN mpc' = "error" /\ UNCHANGED merged_key_values
         ELSE mpc' = "loop" /\ merged_key_values' = r.val
    /\ UNCHANGED <<expected_keys, flattened_extracted_result>>
    /\ UNCHANGED notMerge

\* After the last page: lines 171-178.
MergeFinish ==
    /\ mpc = "loop"
    /\ flattened_extracted_result' = Flatten(Values(merged_key_values), <<>>)
    /\ mpc' = "done"
    /\ UNCHANGED <<expected_keys, pages, merged_key_values>>
    /\ UNCHANGED notMerge

MergeNext ==
    \/ \E page \in PageShapes : MergeNextPage(page)
    \/ \E item \in Items : MergeNextKV(item)
    \/ MergeFinish

SpecMerge == MergeInit /\ [][MergeNext]_vars

(***************************************************************************)
(* Properties of the page merge.                                           *)
(***************************************************************************)
ExpectedSet == {expected_keys[i] : i \in 1..Len(expected_keys)}
Occurrences(od, k) == Cardinality({i \in 1..Len(od) : od[i].k = k})

\* Every field extraction (dict item) iterated so far, in page order.
RECURSIVE AllKVs(_)
AllKVs(ps) ==
    IF ps = <<>> THEN <<>>
    ELSE LET kvs == key_values_of(Head(ps)) IN
         (IF kvs.raised THEN <<>> ELSE SelectSeq(kvs.val.xs, IsDict)) \o AllKVs(Tail(ps))

\* C1: the key set of the Merged Result is the template's expected field set:
\* every expected field appears exactly once and no other key appears, in
\* the running merged dict at every step and in the flattened result.
C1_MergedKeysAreExpected ==
    /\ Keys(merged_key_values) = ExpectedSet
    /\ \A k \in ExpectedSet : Occurrences(merged_key_values, k) = 1
    /\ \A i \in 1..Len(merged_key_values) :
           merged_key_values[i].v.f.key = merged_key_values[i].k
    /\ mpc = "done" =>
        /\ Keys(flattened_extracted_result) = ExpectedSet
        /\ \A k \in ExpectedSet : Occurrences(flattened_extracted_result, k) = 1

\* A merge that completed over a page holding a field outside the template
\* (with a value) twice.
C1_Witness ==
    /\ mpc = "done"
    /\ expected_keys = <<Total>>
    /\ \E i, j \in 1..Len(AllKVs(pages)) :
        /\ i < j
        /\ Get(AllKVs(pages)[i], "key") = InvoiceNumber
        /\ Get(AllKVs(pages)[i], "value") = Str("V1")
        /\ Get(AllKVs(pages)[j], "key") = InvoiceNumber

\* C2: every value of the Merged Result is a non-empty string (among them
\* the literal "N/A"): never the empty string, never null.
NonEmptyStr(v) == IsStr(v) /\ v # Str("")
C2_ValuesNonEmptyOrNA ==
    /\ \A i \in 1..Len(merged_key_values) :
           NonEmptyStr(merged_key_values[i].v.f.value)
    /\ \A i \in 1..Len(flattened_extracted_result) :
           NonEmptyStr(flattened_extracted_result[i].v)

\* C3: first non-"N/A" wins: the merged value and position of an expected
\* field are those of its first extraction, in page order, whose value is
\* present and not "N/A".
Present(kv) == Get(kv, "value") # None /\ Get(kv, "value") # NA
FirstPresent(k) ==
    LET kvs == AllKVs(pages)
        hits == {i \in 1..Len(kvs) : Get(kvs[i], "key") = k /\ Present(kvs[i])}
    IN IF hits = {} THEN None
       ELSE kvs[CHOOSE i \in hits : \A j \in hits : i <= j]
C3_FirstNonNAWins ==
    mpc \in {"loop", "done"} =>
        \A k \in ExpectedSet :
            FirstPresent(k) # None =>
                /\ Lookup(merged_key_values, k).f.value = FirstPresent(k).f.value
                /\ Lookup(merged_key_values, k).f.position = Get(FirstPresent(k), "position")

\* C4: at every step of the merge a field whose running value is "N/A" has a
\* null position, and a field no extraction of which had a value other than
\* "N/A" (the code's test value != "N/A") is "N/A" with a null position.
ObservedNonNA(k) ==
    LET kvs == AllKVs(pages) IN
    \E i \in 1..Len(kvs) : Get(kvs[i], "key") = k /\ Get(kvs[i], "value") # NA
Unextractable(page) ==
    /\ "ai_extraction" \in DOMAIN page.f
    /\ IsDict(page.f.ai_extraction)
    /\ \/ page.f.ai_extraction = Sentinel
       \/ /\ "key_values" \in DOMAIN page.f.ai_extraction.f
          /\ IsList(page.f.ai_extraction.f.key_values)
          /\ \A i \in 1..Len(page.f.ai_extraction.f.key_values.xs) :
                LET kv == page.f.ai_extraction.f.key_values.xs[i] IN
                IsDict(kv) /\ Get(kv, "value") = NA
C5_NothingExtractedAllNA ==
    (\A p \in 1..Len(pages) : Unextractable(pages[p])) =>
        /\ mpc # "error"
        /\ mpc = "done" =>
            /\ Keys(flattened_extracted_result) = ExpectedSet
            /\ \A k \in ExpectedSet : Lookup(flattened_extracted_result, k) = NA

\* A completed merge over a sentinel page and a page with only "N/A" values.
C5_Witness ==
    /\ mpc = "done"
    /\ Len(pages) = 2
    /\ Unextractable(pages[1])
    /\ pages[1].f.ai_extraction = Sentinel
    /\ Unextractable(pages[2])
    /\ AllKVs(pages) # <<>>

(***************************************************************************)
(* The inference functions: the backend's answer is a text, here a         *)
(* sequence of tokens: a code fence (three backticks), the word json,      *)
(* white space, the JSON brackets, the member name "key_values" with its   *)
(* colon, a string literal and a number. There are no commas: an object    *)
(* has at most the member key_values and a list at most one element.       *)
(***************************************************************************)
Tokens == {"FENCE", "json", " ", "{", "}", "[", "]", "KEY_VALUES:", "STR", "NUM"}

\* The texts of n tokens.
TextsOfLength(n) == [1..n -> Tokens]
Texts == UNION {TextsOfLength(n) : n \in 0..MaxTokens}

\* str.strip(), and its two halves
RECURSIVE lstrip(_)
lstrip(text) ==
    IF text # <<>> /\ Head(text) = " " THEN lstrip(Tail(text)) ELSE text
RECURSIVE rstrip(_)
rstrip(text) ==
    IF text # <<>> /\ text[Len(text)] = " "
    THEN rstrip(SubSeq(text, 1, Len(text) - 1)) ELSE text
strip(text) == rstrip(lstrip(text))

\* re.sub(r"^```(?:json)?\s*", "", content)
strip_opening_fence(content) ==
    IF content # <<>> /\ Head(content) = "FENCE"
    THEN LET rest == Tail(content) IN
         lstrip(IF rest # <<>> /\ Head(rest) = "json" THEN Tail(rest) ELSE rest)
    ELSE content

\* re.sub(r"\s*```$", "", content)
strip_closing_fence(content) ==
    IF content # <<>> /\ content[Len(content)] = "FENCE"
    THEN rstrip(SubSeq(content, 1, Len(content) - 1))
    ELSE content

\* The JSON decoder: one value at the head of the text. [ok, val, rest].
NoParse == [ok |-> FALSE, val |-> None, rest |-> <<>>]
Parsed(v, rest) == [ok |-> TRUE, val |-> v, rest |-> rest]
Expect(tok, text) == lstrip(text) # <<>> /\ Head(lstrip(text)) = tok
RECURSIVE parse_value(_)
parse_value(text) ==
    LET t == lstrip(text) IN
    IF t = <<>> THEN NoParse
    ELSE CASE Head(t) = "STR" -> Parsed(Str("s"), Tail(t))
           [] Head(t) = "NUM" -> Parsed(Num(1), Tail(t))
           [] Head(t) = "[" ->
                IF Expect("]", Tail(t)) THEN Parsed(EmptyList, Tail(lstrip(Tail(t))))
                ELSE LET e == parse_value(Tail(t)) IN
                     IF e.ok /\ Expect("]", e.rest)
                     THEN Parsed(List(<<e.val>>), Tail(lstrip(e.rest)))
                     ELSE NoParse
           [] Head(t) = "{" ->
                IF Expect("}", Tail(t)) THEN Parsed(EmptyDict, Tail(lstrip(Tail(t))))
                ELSE IF Expect("KEY_VALUES:", Tail(t))
                THEN LET m == parse_value(Tail(lstrip(Tail(t)))) IN
                     IF m.ok /\ Expect("}", m.rest)
                     THEN Parsed(Dict([key_values |-> m.val]), Tail(lstrip(m.rest)))
                     ELSE NoParse
                ELSE NoParse
           [] OTHER -> NoParse

\* json.loads(content)
json_loads(content) ==
    LET p == parse_value(content) IN
    IF p.ok /\ lstrip(p.rest) = <<>> THEN Ok(p.val) ELSE Raise("JSONDecodeError")

\* What the backend does with a request: the call raises (network, auth),
\* or it answers with a message whose content is a text.
CallError == [t |-> "raise", exc |-> "APIConnectionError"]
Answer(text) == [t |-> "answer", content |-> text]

\* "except <cls>" catches exc. Every exception here derives from Exception.
Catches(cls, exc) == cls = "Exception" \/ cls = exc

\* The try body of the three functions up to json.loads: the call, strip()
\* and the two re.sub.
cleaned_content(resp) ==
    IF resp.t = "raise" THEN Raise(resp.exc)
    ELSE Ok(strip_closing_fence(strip_opening_fence(strip(resp.content))))

\* Mutant: the handler names the backend's error class only.
handler_of_ai_extraction_service_narrow == "APIConnectionError"

\* ai_extraction_service.py line 76 and line 164: "except Exception as e".
handler_of_ai_extraction_service == "Exception"

\* ai_extraction_service.py: extract_key_values_with_ai and
\* extract_key_values_with_ai_for_template have the same try and except.
extract_key_values_with_ai_service(resp) ==
    LET c == cleaned_content(resp)
        r == IF c.raised THEN c ELSE json_loads(c.val)
    IN IF r.raised /\ Catches(handler_of_ai_extraction_service, r.exc)
       THEN Ok(Sentinel)
       ELSE r

NotValidJSON == Dict([message |-> Str("AI response was not valid JSON.")])

\* The call raised, or the answer is not JSON once the fences are stripped.
BackendFailed(resp) ==
    resp.t = "raise" \/ json_loads(cleaned_content(resp).val).raised

\* Mutant: neither except clause is there.
extract_key_values_with_ai_uncaught(resp) ==
    LET c == cleaned_content(resp) IN
    IF c.raised THEN c ELSE json_loads(c.val)

\* template_processing.py: extract_key_values_with_ai, with an inner
\* "except json.JSONDecodeError" and an outer "except Exception".
extract_key_values_with_ai_template_processing(resp) ==
    LET c == cleaned_content(resp) IN
    IF c.raised
    THEN (IF Catches("Exception", c.exc) THEN Ok(Sentinel) ELSE c)
    ELSE LET r == json_loads(c.val) IN
         IF r.raised /\ Catches("JSONDecodeError", r.exc) THEN Ok(NotValidJSON)
         ELSE IF r.raised /\ Catches("Exception", r.exc) THEN Ok(Sentinel)
         ELSE r

InferFunctions ==
    { "ai_extraction_service.extract_key_values_with_ai",
      "ai_extraction_service.extract_key_values_with_ai_for_template",
      "template_processing.extract_key_values_with_ai" }

Infer(fn, resp) ==
    IF fn = "template_processing.extract_key_values_with_ai"
    THEN extract_key_values_with_ai_template_processing(resp)
    ELSE extract_key_values_with_ai_service(resp)

Responses == {CallError} \cup {Answer(text) : text \in Texts}

InferInit ==
    /\ MergeIdle
    /\ PipeIdle
    /\ ReqIdle
    /\ GuidedIdle
    /\ WordsIdle
    /\ LabelIdle
    /\ AnnotIdle
    /\ TenantIdle
    /\ ConcIdle
    /\ SignupIdle
    /\ infer_fn \in InferFunctions
    /\ response \in Responses
    /\ ai_result = None
    /\ ipc = "call"

\* One call of an inference function.
InferCall ==
    /\ ipc = "call"
    /\ ai_result' = Infer(infer_fn, response)
    /\ ipc' = "returned"
    /\ UNCHANGED <<infer_fn, response>>
    /\ UNCHANGED notInfer

InferNext == InferCall

SpecInfer == InferInit /\ [][InferNext]_vars

\* C6: for a backend text that does not parse as JSON once the surrounding
\* code fence is stripped, each inference function returns a sentinel
\* {"message": ...} and raises nothing.
IsSentinel(v) == IsDict(v) /\ DOMAIN v.f = {"message"} /\ IsStr(v.f.message)
Unparseable(resp) ==
    /\ resp.t = "answer"
    /\ json_loads(strip_closing_fence(strip_opening_fence(strip(resp.content)))).raised
C6_UnparseableYieldsSentinel ==
    (ipc = "returned" /\ Unparseable(response)) =>
        /\ ~ai_result.raised
        /\ IsSentinel(ai_result.val)

\* A call answered with truncated JSON inside an opening fence has returned.
C6_Witness ==
    /\ ipc = "returned"
    /\ response = Answer(<<"FENCE", "json", "{", "KEY_VALUES:">>)
    /\ infer_fn = "ai_extraction_service.extract_key_values_with_ai_for_template"

(***************************************************************************)
(* The orchestrators: process_template (template_processing.py) and        *)
(* process_pdf (invoice_processing.py). A stage is one action; a stage     *)
(* that touches the image libraries, the OCR engine or the disk may fail.  *)
(***************************************************************************)
\* What the backend answers in a run of an orchestrator.
PipelineResponses ==
    { CallError,
      Answer(<<"{", "KEY_VALUES:">>),
      Answer(<<"FENCE", "json", " ", "{", "KEY_VALUES:", "[", "{", "}", "]", "}", " ", "FENCE">>),
      Answer(<<"{", "KEY_VALUES:", "[", "]", "}">>),
      Answer(<<"{", "}">>),
      Answer(<<"[", "]">>),
      Answer(<<"STR">>),
      Answer(<<"{", "KEY_VALUES:", "[", "NUM", "]", "}">>) }

Documents ==
    {[readable |-> FALSE, n |-> 0]} \cup {[readable |-> TRUE, n |-> n] : n \in 1..MaxPages}

\* Mutant: a document that cannot be converted yields no pages.
pdf_to_images_swallowing(doc) == Ok(doc.n)

\* pdf_to_images: convert_from_path, whose exception is logged and re-raised.
\* The pages are known by their count.
pdf_to_images(doc) ==
    IF doc.readable THEN Ok(doc.n) ELSE Raise("PDFPageCountError")

\* bool(v)
Truthy(v) ==
    CASE v.t = "None" -> FALSE
      [] v.t = "str" -> v.s # ""
      [] v.t = "int" -> v.n # 0
      [] v.t = "list" -> v.xs # <<>>
      [] v.t = "dict" -> DOMAIN v.f # {}

\* iter(v): the items a for loop sees, or TypeError
IterItems(v) ==
    CASE v.t = "list" -> Ok(v.xs)
      [] v.t = "str" -> Ok([i \in 1..(IF v.s = "" THEN 0 ELSE 1) |-> v])
      [] v.t = "dict" -> Ok(<<>>)
      [] OTHER -> Raise("TypeError")

\* The loop body of annotate_from_ai_response up to the drawing: the item is
\* skipped ("skip"), drawn ("draw"), or the access raises.
annotate_item(item) ==
    IF ~IsDict(item) THEN Raise("AttributeError")
    ELSE LET key == Get(item, "key")
             pos == Get(item, "position")
         IN IF ~Truthy(key) \/ ~Truthy(pos) THEN Ok("skip")
            ELSE IF ~IsDict(pos) THEN Raise("AttributeError")
            ELSE IF None \in {Get(pos, "x"), Get(pos, "y"), Get(pos, "w"), Get(pos, "h")}
                 THEN Ok("skip")
            ELSE Ok("draw")

\* annotate_from_ai_response(image, ai_response, output_path) of
\* template_processing.py: "none" when there are no key_values (nothing is
\* written), "written" when the image file is written; any exception is
\* logged and re-raised. io_ok: drawing and writing the file succeed.
annotate_from_ai_response(ai, io_ok) ==
    IF ~IsDict(ai) THEN Raise("AttributeError")
    ELSE LET key_values == GetOr(ai, "key_values", EmptyList) IN
         IF ~Truthy(key_values) THEN Ok("none")
         ELSE LET items == IterItems(key_values) IN
              IF items.raised THEN items
              ELSE IF \E i \in 1..Len(items.val) : annotate_item(items.val[i]).raised
                   THEN Raise("AttributeError")
              ELSE IF ~io_ok THEN Raise("cv2.error")
              ELSE Ok("written")

\* extract_structured_data of invoice_processing.py: the answer is parsed as
\* it is; "except json.JSONDecodeError: return {}", "except Exception: raise".
extract_structured_data(resp) ==
    IF resp.t = "raise" THEN Raise(resp.exc)
    ELSE LET r == json_loads(resp.content) IN
         IF r.raised THEN Ok(EmptyDict) ELSE r

ai_annotated_path(i) == Str("temp_annotated/ai_annotated_page_" \o ToString(i) \o ".png")
annotated_path(i) == Str("temp_annotate/annotated_page_" \o ToString(i) \o ".png")
output_path(i) == Str("output/annotated_page_" \o ToString(i) \o ".png")

\* Mutant: the pages are counted from 0 (enumerate without start=1).
PageResult_from_zero(i, ai, ai_path) ==
    Dict([page |-> Num(i - 1), annotated_image |-> annotated_path(i - 1),
          ai_extraction |-> ai, ai_annotated_image |-> ai_path])

\* The dict appended to results for page i.
PageResult(i, ai, ai_path) ==
    Dict([page |-> Num(i), annotated_image |-> annotated_path(i),
          ai_extraction |-> ai, ai_annotated_image |-> ai_path])

PipeInit ==
    /\ MergeIdle
    /\ InferIdle
    /\ ReqIdle
    /\ GuidedIdle
    /\ WordsIdle
    /\ LabelIdle
    /\ AnnotIdle
    /\ TenantIdle
    /\ ConcIdle
    /\ SignupIdle
    /\ orchestrator \in {"process_template", "process_pdf"}
    /\ document \in Documents
    /\ ppc = "rasterize"
    /\ n_pages = 0
    /\ idx = 0
    /\ results = <<>>
    /\ ai_extraction = None
    /\ backend = <<>>
    /\ stage_log = <<>>
    /\ failure = None
    /\ returned = None
    /\ written = {}

\* The stage has run on the current page; a failure is logged by its except
\* clause (logger.error).
Logged(stage, ok) ==
    stage_log' = Append(stage_log, <<stage, idx, IF ok THEN "ok" ELSE "failed">>)

\* "except Exception as e: logger.error(...); raise" of the orchestrator.
Abort(stage, exc) ==
    /\ ppc' = "raised"
    /\ failure' = [stage |-> stage, page |-> idx, exc |-> exc]

\* Mutant: the statement after the loop is indented into it.
NextPageOr_inside_loop(after, rs) ==
    /\ idx' = idx
    /\ ppc' = after
    /\ returned' = IF after = "returned" THEN Dict([pages |-> List(rs)]) ELSE returned

\* The next page of the for loop, or what follows the loop.
NextPageOr(after, rs) ==
    IF idx < n_pages
    THEN /\ idx' = idx + 1
         /\ ppc' = "preprocess"
         /\ returned' = returned
    ELSE /\ idx' = idx
         /\ ppc' = after
         /\ returned' = IF after = "returned" THEN Dict([pages |-> List(rs)]) ELSE returned

\* pages = pdf_to_images(pdf_path)
Rasterize ==
    /\ ppc = "rasterize"
    /\ Logged("rasterize", ~pdf_to_images(document).raised)
    /\ LET r == pdf_to_images(document) IN
         IF r.raised
         THEN /\ Abort("rasterize", r.exc)
              /\ UNCHANGED <<n_pages, idx, returned>>
         ELSE /\ n_pages' = r.val
              /\ failure' = failure
              /\ IF r.val = 0
                 THEN /\ idx' = idx
                      /\ ppc' = IF orchestrator = "process_template" THEN "returned" ELSE "extract"
                      /\ returned' = IF orchestrator = "process_template"
                                     THEN Dict([pages |-> List(<<>>)]) ELSE returned
                 ELSE /\ idx' = 1
                      /\ ppc' = "preprocess"
                      /\ returned' = returned
    /\ UNCHANGED <<orchestrator, document, results, ai_extraction, backend, written>>
    /\ UNCHANGED notPipe

\* cv2.cvtColor and preprocess_image
Preprocess(ok) ==
    /\ ppc = "preprocess"
    /\ Logged("preprocess", ok)
    /\ IF ok THEN ppc' = "ocr" /\ failure' = failure
       ELSE Abort("preprocess", "cv2.error")
    /\ UNCHANGED <<orchestrator, document, n_pages, idx, results, ai_extraction,
                   backend, returned, written>>
    /\ UNCHANGED notPipe

\* ocr_image; process_pdf appends the text to combined_text
RecognizeText(ok) ==
    /\ ppc = "ocr"
    /\ Logged("ocr", ok)
    /\ IF ok
       THEN /\ ppc' = IF orchestrator = "process_template" THEN "words" ELSE "annotate_image"
            /\ failure' = failure
            /\ results' = IF orchestrator = "process_pdf"
                          THEN Append(results, Num(idx)) ELSE results
       ELSE /\ Abort("ocr", "TesseractError")
            /\ results' = results
    /\ UNCHANGED <<orchestrator, document, n_pages, idx, ai_extraction,
                   backend, returned, written>>
    /\ UNCHANGED notPipe

\* extract_word_positions (process_template)
RecognizeWords(ok) ==
    /\ ppc = "words"
    /\ Logged("words", ok)
    /\ IF ok THEN ppc' = "infer" /\ failure' = failure
       ELSE Abort("words", "TesseractError")
    /\ UNCHANGED <<orchestrator, document, n_pages, idx, results, ai_extraction,
                   backend, returned, written>>
    /\ UNCHANGED notPipe

\* ai_result = extract_key_values_with_ai(...), then "if ai_result.get("key_values")":
\* with key_values the annotation follows, without them the page result is
\* appended with no AI annotated image.
InferPage(resp) ==
    /\ ppc = "infer"
    /\ Logged("infer", ~BackendFailed(resp))
    /\ backend' = Append(backend, resp)
    /\ LET r == extract_key_values_with_ai_template_processing(resp) IN
         IF r.raised
         THEN /\ Abort("infer", r.exc)
              /\ UNCHANGED <<idx, results, ai_extraction, returned>>
         ELSE /\ ai_extraction' = r.val
              /\ IF ~IsDict(r.val)
                 THEN /\ Abort("key_values", "AttributeError")
                      /\ UNCHANGED <<idx, results, returned>>
                 ELSE IF Truthy(Get(r.val, "key_values"))
                 THEN /\ ppc' = "annotate"
                      /\ UNCHANGED <<idx, results, returned, failure>>
                 ELSE /\ results' = Append(results, PageResult(idx, r.val, None))
                      /\ NextPageOr("returned", results')
                      /\ failure' = failure
    /\ UNCHANGED <<orchestrator, document, n_pages, written>>
    /\ UNCHANGED notPipe

\* annotate_from_ai_response(img, ai_result, ai_annotated_path), then
\* results.append(...)
AnnotatePage(io_ok) ==
    /\ ppc = "annotate"
    /\ Logged("annotate", ~annotate_from_ai_response(ai_extraction, io_ok).raised)
    /\ LET r == annotate_from_ai_response(ai_extraction, io_ok) IN
         IF r.raised
         THEN /\ Abort("annotate", r.exc)
              /\ UNCHANGED <<idx, results, returned, written>>
         ELSE /\ written' = IF r.val = "written"
                            THEN written \cup {ai_annotated_path(idx)} ELSE written
              /\ results' = Append(results,
                                PageResult(idx, ai_extraction, ai_annotated_path(idx)))
              /\ NextPageOr("returned", results')
              /\ failure' = failure
    /\ UNCHANGED <<orchestrator, document, n_pages, ai_extraction, backend>>
    /\ UNCHANGED notPipe

\* annotate_image of invoice_processing.py (process_pdf): its exception is
\* logged and not re-raised.
AnnotateImage(io_ok) ==
    /\ ppc = "annotate_image"
    /\ Logged("annotate_image", io_ok)
    /\ written' = IF io_ok THEN written \cup {output_path(idx)} ELSE written
    /\ NextPageOr("extract", results)
    /\ UNCHANGED <<orchestrator, document, n_pages, results, ai_extraction,
                   backend, failure>>
    /\ UNCHANGED notPipe

\* return extract_structured_data(raw_text) (process_pdf)
ExtractStructured(resp) ==
    /\ ppc = "extract"
    /\ Logged("extract", ~BackendFailed(resp))
    /\ backend' = Append(backend, resp)
    /\ LET r == extract_structured_data(resp) IN
         IF r.raised
         THEN Abort("extract", r.exc) /\ returned' = returned
         ELSE ppc' = "returned" /\ returned' = r.val /\ failure' = failure
    /\ UNCHANGED <<orchestrator, document, n_pages, idx, results, ai_extraction, written>>
    /\ UNCHANGED notPipe

PipeNext ==
    \/ Rasterize
    \/ \E ok \in BOOLEAN : Preprocess(ok)
    \/ \E ok \in BOOLEAN : RecognizeText(ok)
    \/ \E ok \in BOOLEAN : RecognizeWords(ok)
    \/ \E resp \in PipelineResponses : InferPage(resp)
    \/ \E io_ok \in BOOLEAN : AnnotatePage(io_ok)
    \/ \E io_ok \in BOOLEAN : AnnotateImage(io_ok)
    \/ \E resp \in PipelineResponses : ExtractStructured(resp)

SpecPipeline == PipeInit /\ [][PipeNext]_vars

(***************************************************************************)
(* Properties of the orchestrators.                                        *)
(***************************************************************************)
\* Valid JSON of the wrong structure: no object, or an object whose
\* key_values is not a list of objects.
Malformed(v) ==
    \/ ~IsDict(v)
    \/ /\ "key_values" \in DOMAIN v.f
       /\ \/ ~IsList(v.f.key_values)
          \/ \E i \in 1..Len(v.f.key_values.xs) : ~IsDict(v.f.key_values.xs[i])

\* C7: the result of the inference function is an object with a key_values
\* list of objects or the sentinel: valid JSON of another structure is
\* replaced by the sentinel, and never makes process_template raise.
C7_MalformedYieldsSentinel ==
    /\ ai_extraction # None => ~Malformed(ai_extraction)
    /\ ppc = "raised" => failure.exc \notin {"AttributeError", "TypeError"}

\* C8: when rasterization fails, the run ends with that error, no page-level
\* stage has run, nothing is returned and no file is written.
C8_RasterizationFailureIsFatal ==
    (~document.readable /\ ppc # "rasterize") =>
        /\ ppc = "raised"
        /\ failure = [stage |-> "rasterize", page |-> 0, exc |-> "PDFPageCountError"]
        /\ stage_log = << <<"rasterize", 0, "failed">> >>
        /\ results = <<>>
        /\ returned = None
        /\ written = {}

\* process_template has run on a file that cannot be converted.
C8_Witness ==
    /\ orchestrator = "process_template"
    /\ ~document.readable
    /\ ppc = "raised"

\* C9 as claimed: a failure of a per-page stage never ends the run.
PageStages == {"preprocess", "ocr", "words", "infer", "annotate", "annotate_image"}
StageErrors == {"cv2.error", "TesseractError", "APIConnectionError", "JSONDecodeError"}
C9_PageFailureIsSkipped ==
    ppc = "raised" => ~(failure.stage \in PageStages /\ failure.exc \in StageErrors)

\* C9 as amended. In process_template a failure of the inference call on
\* page k is caught in extract_key_values_with_ai: page k's result holds the
\* sentinel and no AI annotated image, and the run goes on (a run that
\* returns, returns one result per page, numbered 1..N). A failure of
\* preprocessing, text recognition, word recognition or annotation is the
\* last stage of the run: it is re-raised and nothing is returned. In
\* process_pdf a failure of annotate_image is ignored.
FailedStages(stages) ==
    {i \in 1..Len(stage_log) : stage_log[i][1] \in stages /\ stage_log[i][3] = "failed"}
C9_OnlyInferenceFailureIsSkipped ==
    /\ orchestrator = "process_template" =>
        /\ \A k \in 1..Len(backend) :
              BackendFailed(backend[k]) =>
                  /\ Len(results) >= k
                  /\ IsSentinel(Get(results[k], "ai_extraction"))
                  /\ Get(results[k], "ai_annotated_image") = None
        /\ ppc = "raised" => failure.stage # "infer"
        /\ ppc = "returned" =>
              /\ Len(results) = document.n
              /\ \A k \in 1..Len(results) : Get(results[k], "page") = Num(k)
              /\ returned = Dict([pages |-> List(results)])
    /\ \A i \in FailedStages({"preprocess", "ocr", "words", "annotate"}) :
          /\ i = Len(stage_log)
          /\ ppc = "raised"
          /\ failure.stage = stage_log[i][1]
          /\ failure.page = stage_log[i][2]
          /\ returned = None
    /\ ppc = "raised" => failure.stage # "annotate_image"

\* process_template returned two page results although the inference call
\* of page 1 failed.
C9_Witness ==
    /\ orchestrator = "process_template"
    /\ ppc = "returned"
    /\ Len(results) = 2
    /\ backend[1] = CallError

(***************************************************************************)
(* The endpoints that take an upload: create_template (template.py),       *)
(* create_template_to_data (template_upload.py) and parse_invoice          *)
(* (invoice.py). Each writes the upload to a file in the working           *)
(* directory, runs the extraction on it and removes it afterwards; each    *)
(* body is one try whose "except Exception" answers 500.                   *)
(***************************************************************************)
\* file.filename, as stem and extension
Filenames == {[stem |-> "scan", ext |-> ".pdf"], [stem |-> "scan", ext |-> ".png"]}

\* The templates of the database, and the ids a client may send.
StoredTemplates == {7}
TemplateIds == {7, 8}

\* The Authorization header of a request: none; a token that has expired,
\* one whose signature does not verify and one that is no JWT at all; a
\* valid token without "sub", one of a user who is not in the database,
\* one of a user who is.
Credentials ==
    {"missing", "expired", "bad_signature", "malformed", "no_sub", "unknown_user", "valid"}

\* The platform_user_id of the one user of the database.
KnownUser == Num(1)

Requests ==
    {[endpoint |-> "create_template", credentials |-> c, filename |-> f,
      template_name |-> "invoice"] : c \in Credentials, f \in Filenames}
    \cup {[endpoint |-> "create_template_to_data", credentials |-> c, filename |-> f,
           template_id |-> id] : c \in Credentials, f \in Filenames, id \in TemplateIds}
    \cup {[endpoint |-> "parse_invoice", credentials |-> c, filename |-> f] :
            c \in Credentials, f \in Filenames}

\* An HTTPException, or an exception no handler catches (status 500).
Refuse(status) == [raised |-> TRUE, status |-> status]

\* jose's jwt.decode(token, SECRET_KEY, algorithms=[ALGORITHM]): the payload,
\* ExpiredSignatureError for a token past its "exp", JWTError for a
\* signature that does not verify and for a text that is no JWT.
jwt_decode(token) ==
    CASE token = "expired" -> Raise("ExpiredSignatureError")
      [] token = "bad_signature" -> Raise("JWTError")
      [] token = "malformed" -> Raise("JWTError")
      [] token = "no_sub" -> Ok(EmptyDict)
      [] token = "unknown_user" -> Ok(Dict([sub |-> Str("2")]))
      [] token = "valid" -> Ok(Dict([sub |-> Str("1")]))

\* The names utils/jwt.py binds: its imports and its own definitions.
JwtModuleNames ==
    {"datetime", "timedelta", "HTTPException", "settings", "jwt", "ExpiredSignatureError",
     "JWTError", "DecodeError", "InvalidSignatureError", "InvalidTokenError", "logging",
     "logger", "SECRET_KEY", "ALGORITHM", "ACCESS_TOKEN_EXPIRE_MINUTES",
     "create_access_token", "decode_access_token"}

\* "raise HTTPException(status_code=status.HTTP_..., ...)" in a module with
\* these names: without "status" the expression raises NameError, which
\* nothing catches (500).
raise_http_exception(names, code) ==
    IF "status" \in names THEN Refuse(code) ELSE Refuse(500)

\* decode_access_token: the payload, or what the handler of the exception
\* raises. ExpiredSignatureError is a JWTError and has the first handler;
\* the handlers of PyJWT's InvalidSignatureError, DecodeError and
\* InvalidTokenError match nothing jose raises.
decode_access_token(token) ==
    LET r == jwt_decode(token) IN
    IF ~r.raised THEN r
    ELSE CASE r.exc = "ExpiredSignatureError" -> raise_http_exception(JwtModuleNames, 401)
           [] r.exc = "JWTError" -> raise_http_exception(JwtModuleNames, 400)
           [] OTHER -> raise_http_exception(JwtModuleNames, 500)

\* The row of the users table with this platform_user_id, None without one.
find_user(user_id) == IF user_id = 1 THEN KnownUser ELSE None

\* get_current_user up to "user = result.scalars().first()": HTTPBearer
\* refuses a request without bearer credentials (403); int(payload.get("sub"))
\* raises TypeError without "sub" (500).
first_user(credentials) ==
    IF credentials = "missing" THEN Refuse(403)
    ELSE LET payload == decode_access_token(credentials) IN
         IF payload.raised THEN payload
         ELSE IF payload.val = None THEN Refuse(401)
         ELSE IF Get(payload.val, "sub") = None THEN Refuse(500)
         ELSE Ok(find_user(IF Get(payload.val, "sub") = Str("1") THEN 1 ELSE 2))

\* Mutant: "if user is None" is not tested.
get_current_user_unchecked(credentials) == first_user(credentials)

\* The dependency get_current_user: a user who is not found is refused (401).
get_current_user(credentials) ==
    LET user == first_user(credentials) IN
    IF ~user.raised /\ user.val = None THEN Refuse(401) ELSE user

\* The path the upload is written to.
file_path(req) ==
    CASE req.endpoint = "create_template" -> "temp_" \o req.template_name
      [] req.endpoint = "create_template_to_data" ->
            "temp_" \o ToString(req.template_id) \o "_" \o req.filename.stem \o req.filename.ext
      [] req.endpoint = "parse_invoice" -> "temp_invoice.pdf"

\* Mutant: the file name is not tested.
endswith_pdf_untested(filename) == TRUE

\* file.filename.endswith(".pdf")
endswith_pdf(filename) == filename.ext = ".pdf"

\* The orchestrator an endpoint calls.
orchestrator_of(req) ==
    IF req.endpoint = "parse_invoice" THEN "process_pdf" ELSE "process_template"

\* get_template_metadata: the template, None when there is none (NoResultFound)
get_template_metadata(template_id) ==
    IF template_id \in StoredTemplates THEN Ok(Num(template_id)) ELSE Ok(None)

\* "raise HTTPException(...)" or any other exception inside the try of an
\* endpoint: "except Exception" answers 500.
Answer500 ==
    /\ http_status' = 500
    /\ rpc' = "done"

ReqInit ==
    /\ MergeIdle
    /\ InferIdle
    /\ PipeIdle
    /\ GuidedIdle
    /\ WordsIdle
    /\ LabelIdle
    /\ AnnotIdle
    /\ TenantIdle
    /\ ConcIdle
    /\ SignupIdle
    /\ request \in Requests
    /\ current_user = None
    /\ rpc = "auth"
    /\ disk = {}
    /\ created = {}
    /\ http_status = 0
    /\ stored = FALSE
    /\ persisted = <<>>

\* The dependencies of the endpoint are resolved before its body is called:
\* the body runs with the user get_current_user returned, and not at all
\* when it raised.
Authenticate ==
    /\ rpc = "auth"
    /\ LET r == get_current_user(request.credentials) IN
         IF r.raised
         THEN /\ http_status' = r.status
              /\ rpc' = "done"
              /\ current_user' = current_user
         ELSE /\ current_user' = r.val
              /\ rpc' = "save"
              /\ http_status' = http_status
    /\ UNCHANGED <<request, disk, created, stored, persisted>>
    /\ UNCHANGED notReq

\* parse_invoice refuses a file that is no .pdf before its try (400). Then
\* "user_id = current_user.platform_user_id", and
\* 'with open(file_path, "wb") as f: f.write(contents)': the file is written,
\* or open fails and there is no file.
SaveUpload(ok) ==
    /\ rpc = "save"
    /\ IF request.endpoint = "parse_invoice" /\ ~endswith_pdf(request.filename)
       THEN /\ http_status' = 400
            /\ rpc' = "done"
            /\ UNCHANGED <<disk, created>>
       ELSE IF current_user = None
       THEN /\ Answer500
            /\ UNCHANGED <<disk, created>>
       ELSE /\ disk' = IF ok THEN disk \cup {file_path(request)} ELSE disk
            /\ created' = IF ok THEN created \cup {file_path(request)} ELSE created
            /\ IF ok
               THEN /\ rpc' = IF request.endpoint = "create_template_to_data"
                              THEN "lookup" ELSE "call"
                    /\ http_status' = http_status
               ELSE Answer500
    /\ UNCHANGED <<request, current_user, stored, persisted>>
    /\ UNCHANGED notReq

\* create_template_to_data: the template lookup, and
\* "if not template_metadata: raise HTTPException(status_code=404, ...)",
\* which is raised inside the try.
LookupTemplate ==
    /\ rpc = "lookup"
    /\ IF get_template_metadata(request.template_id).val = None
       THEN Answer500
       ELSE rpc' = "extract" /\ http_status' = http_status
    /\ UNCHANGED <<request, current_user, disk, created, stored, persisted>>
    /\ UNCHANGED notReq

\* create_template_to_data: template_data = await extract_data_using_template(...).
\* The run returns the page results or raises; it leaves no file of its own.
ExtractDataUsingTemplate(ok) ==
    /\ rpc = "extract"
    /\ IF ok
       THEN rpc' = "remove" /\ http_status' = http_status
       ELSE Answer500
    /\ UNCHANGED <<request, current_user, disk, created, stored, persisted>>
    /\ UNCHANGED notReq

\* create_template and parse_invoice: the call of the orchestrator on the
\* written file, whose content may be no readable document.
CallOrchestrator(doc) ==
    /\ rpc = "call"
    /\ rpc' = "run"
    /\ orchestrator' = orchestrator_of(request)
    /\ document' = doc
    /\ ppc' = "rasterize"
    /\ UNCHANGED <<n_pages, idx, results, ai_extraction, backend, stage_log,
                   failure, returned, written>>
    /\ UNCHANGED <<request, current_user, disk, created, http_status, stored, persisted>>
    /\ UNCHANGED notPipeNorReq

\* The orchestrator has returned, or its exception reaches the except clause
\* of the endpoint.
OrchestratorEnded ==
    /\ rpc = "run"
    /\ ppc \in {"returned", "raised"}
    /\ IF ppc = "raised"
       THEN Answer500
       ELSE rpc' = "remove" /\ http_status' = http_status
    /\ UNCHANGED <<request, current_user, disk, created, stored, persisted>>
    /\ UNCHANGED notReq

\* os.remove(file_path), on the path where the extraction returned; then
\* create_template and parse_invoice answer 200 with the result.
RemoveUpload ==
    /\ rpc = "remove"
    /\ disk' = disk \ {file_path(request)}
    /\ IF request.endpoint = "create_template_to_data"
       THEN rpc' = "merge" /\ http_status' = http_status
       ELSE rpc' = "done" /\ http_status' = 200
    /\ UNCHANGED <<request, current_user, created, stored, persisted>>
    /\ UNCHANGED notReq

\* template_metadata.template_format of a stored template: the expected
\* fields, in order.
template_format(template_id) == <<InvoiceNumber, Total>>

\* template_data.get("pages", []): the page results the extraction returned.
ExtractedPages ==
    { Dict([ai_extraction |-> Dict([key_values |-> List(<<
          Dict([key |-> Total, value |-> Str("V1"), position |-> BoxA])>>)])]),
      Dict([ai_extraction |-> Dict([key_values |-> List(<<
          Dict([key |-> InvoiceNumber, value |-> Str("V2"), position |-> BoxB]),
          Dict([key |-> Total, value |-> NA, position |-> None])>>)])]),
      Dict([ai_extraction |-> Sentinel]),
      Dict([ai_extraction |-> EmptyList]) }
RECURSIVE PageLists(_)
PageLists(n) ==
    IF n = 0 THEN {<<>>}
    ELSE PageLists(n - 1) \cup {Append(l, pg) : l \in PageLists(n - 1), pg \in ExtractedPages}

\* create_template_to_data: the page merge, which may raise on a page result
\* of the wrong structure, then create_extraction_result with the template
\* id, the file name and the flattened result, which rolls back and
\* re-raises when the commit fails; then the stored result is returned.
MergeAndStore(ps, db_ok) ==
    /\ rpc = "merge"
    /\ expected_keys' = template_format(request.template_id)
    /\ pages' = ps
    /\ LET m == merge_pages(expected_keys', ps) IN
         IF m.raised
         THEN /\ mpc' = "error"
              /\ Answer500
              /\ UNCHANGED <<merged_key_values, flattened_extracted_result,
                             stored, persisted>>
         ELSE /\ mpc' = "done"
              /\ merged_key_values' = m.val
              /\ flattened_extracted_result' = Flatten(Values(m.val), <<>>)
              /\ persisted' = Append(persisted,
                    [template_id |-> request.template_id,
                     source_file_name |-> request.filename.stem \o request.filename.ext,
                     parsed_data |-> flattened_extracted_result',
                     committed |-> db_ok])
              /\ stored' = db_ok
              /\ IF db_ok
                 THEN http_status' = 200 /\ rpc' = "done"
                 ELSE Answer500
    /\ UNCHANGED <<request, current_user, disk, created>>
    /\ UNCHANGED notMergeNorReq

ReqNext ==
    \/ Authenticate
    \/ \E ok \in BOOLEAN : SaveUpload(ok)
    \/ LookupTemplate
    \/ \E ok \in BOOLEAN : ExtractDataUsingTemplate(ok)
    \/ \E doc \in Documents : CallOrchestrator(doc)
    \/ PipeNext
    \/ OrchestratorEnded
    \/ RemoveUpload
    \/ \E ps \in PageLists(MaxPages), db_ok \in BOOLEAN : MergeAndStore(ps, db_ok)

SpecRequest == ReqInit /\ [][ReqNext]_vars

(***************************************************************************)
(* Properties of the endpoints.                                            *)
(***************************************************************************)
\* The files the request has created, and those of them still on the disk:
\* the upload, and the images the orchestrator has written, which no code
\* removes.
PathsWritten == {w.s : w \in written}
CreatedByRequest == created \cup PathsWritten
OnDisk == disk \cup PathsWritten

\* C10: once the request has been answered, no file it created is left on
\* the disk, whatever the exit path: success, template not found, failure of
\* a stage.
C10_NoTempFileRemains ==
    rpc = "done" => CreatedByRequest \cap OnDisk = {}

\* The upload-to-template endpoint was called with an id no template has,
\* and the upload was written, so that the lookup has run or is about to.
UnknownTemplate ==
    /\ request.endpoint = "create_template_to_data"
    /\ request.template_id \notin StoredTemplates
    /\ created # {}

\* C11: a request for a template id that no template has is answered 404
\* "Template not found", and neither the extraction nor the persistence
\* collaborator is invoked for it.
C11_UnknownTemplateAnswers404 ==
    UnknownTemplate =>
        /\ rpc \notin {"extract", "remove", "merge"}
        /\ ~ stored
        /\ rpc = "done" => http_status = 404

(***************************************************************************)
(* Template-guided inference: extract_key_values_with_ai_for_template of   *)
(* ai_extraction_service.py. The expected fields go into the prompt; the   *)
(* answer's text is known here by what json.loads makes of it: a           *)
(* JSONDecodeError, or an object with a key_values list of entries.        *)
(***************************************************************************)
\* The key_values lists an answer may hold: entries for expected and for
\* other fields, in any order, a field left out or given twice.
\* A value printed on two lines: its two words as extract_word_positions
\* reports them, and the positions an answer may give for it.
WordAcme == [text |-> "ACME", x |-> 10, y |-> 10, w |-> 20, h |-> 10]
WordLimited == [text |-> "Limited", x |-> 10, y |-> 25, w |-> 30, h |-> 10]
WordPositionLists == {<<WordAcme, WordLimited>>, <<WordLimited, WordAcme>>, <<WordAcme>>}

BoxOfWord(word) ==
    Dict([x |-> Num(word.x), y |-> Num(word.y), w |-> Num(word.w), h |-> Num(word.h)])
BoxOfBoth == Dict([x |-> Num(10), y |-> Num(10), w |-> Num(30), h |-> Num(25)])
TwoLineValue == Str("ACME Limited")
TwoLineKVs ==
    {Dict([key |-> Total, value |-> TwoLineValue, position |-> p]) :
        p \in {BoxOfWord(WordAcme), BoxOfWord(WordLimited), BoxOfBoth}}

RECURSIVE KVLists(_)
KVLists(n) ==
    IF n = 0 THEN {<<>>}
    ELSE KVLists(n - 1)
         \cup {Append(l, kv) : l \in KVLists(n - 1), kv \in KVs \cup TwoLineKVs}

GuidedResponses ==
    {CallError, [t |-> "answer", json |-> Raise("JSONDecodeError")]}
    \cup {[t |-> "answer", json |-> Ok(Dict([key_values |-> List(l)]))] :
            l \in KVLists(MaxEntries)}

\* The function: the prompt names list(template_parsed_data.keys()); the
\* decoded answer is returned as it is, and any exception gives the sentinel
\* (lines 143-166).
extract_key_values_with_ai_for_template(resp, expected) ==
    LET r == IF resp.t = "raise" THEN Raise(resp.exc) ELSE resp.json
    IN IF r.raised /\ Catches(handler_of_ai_extraction_service, r.exc)
       THEN Ok(Sentinel)
       ELSE r

GuidedInit ==
    /\ MergeIdle
    /\ InferIdle
    /\ PipeIdle
    /\ ReqIdle
    /\ WordsIdle
    /\ LabelIdle
    /\ AnnotIdle
    /\ TenantIdle
    /\ ConcIdle
    /\ SignupIdle
    /\ template_parsed_data \in Templates
    /\ word_positions \in WordPositionLists
    /\ guided_response \in GuidedResponses
    /\ guided_result = None
    /\ gpc = "call"

\* One call of the function.
GuidedCall ==
    /\ gpc = "call"
    /\ guided_result' = extract_key_values_with_ai_for_template(guided_response,
                                                                template_parsed_data)
    /\ gpc' = "returned"
    /\ UNCHANGED <<template_parsed_data, word_positions, guided_response>>
    /\ UNCHANGED notGuided

GuidedNext == GuidedCall

SpecGuided == GuidedInit /\ [][GuidedNext]_vars

\* C12: a result of the template-guided function that is not the sentinel
\* holds exactly one entry for each expected field and none for any other
\* field.
ResultKeys(v) == {Get(v.f.key_values.xs[i], "key") : i \in 1..Len(v.f.key_values.xs)}
C12_GuidedKeysAreExpected ==
    (gpc = "returned" /\ ~ guided_result.raised /\ ~ IsSentinel(guided_result.val)) =>
        /\ ResultKeys(guided_result.val)
             = {template_parsed_data[i] : i \in 1..Len(template_parsed_data)}
        /\ Len(guided_result.val.f.key_values.xs) = Len(template_parsed_data)

(***************************************************************************)
(* Word recognition: extract_word_positions of ocr_service.py (a list      *)
(* comprehension) and of template_processing.py (a loop). image_to_data    *)
(* returns columns of equal length; a detection is one index of them. A    *)
(* text is a sequence of characters, " " standing for white space.         *)
(***************************************************************************)
MaxWords == 2
MaxChars == 2

RECURSIVE CharsOfLength(_)
CharsOfLength(n) ==
    IF n = 0 THEN {<<>>}
    ELSE {Append(t, c) : t \in CharsOfLength(n - 1), c \in {" ", "a"}}
WordTexts == UNION {CharsOfLength(n) : n \in 0..MaxChars}

\* data['conf'][i]: -1 on the rows that are no word, 0..100 on words
Confidences == {-1, 0, 1}

Detections ==
    {[text |-> t, conf |-> c, left |-> 5, top |-> 20, width |-> 30, height |-> 10] :
        t \in WordTexts, c \in Confidences}

RECURSIVE DetectionLists(_)
DetectionLists(n) ==
    IF n = 0 THEN {<<>>}
    ELSE DetectionLists(n - 1)
         \cup {Append(l, d) : l \in DetectionLists(n - 1), d \in Detections}

\* Mutant: a confidence of 0 passes.
confident_from_zero(conf) == conf >= 0

\* int(data['conf'][i]) > 0
confident(conf) == conf > 0

\* data['text'][i].strip(), as a truth value
has_text(text) == strip(text) # <<>>

\* The dict built for a detection that is kept.
word_position(d) ==
    [text |-> d.text, x |-> d.left, y |-> d.top, w |-> d.width, h |-> d.height]

\* ocr_service.py: the list comprehension over range(len(data['text']))
extract_word_positions_ocr_service(rows) ==
    LET kept == SelectSeq(rows, LAMBDA d : confident(d.conf) /\ has_text(d.text))
    IN [i \in 1..Len(kept) |-> word_position(kept[i])]

\* template_processing.py: the loop that appends to positions
RECURSIVE word_positions_loop(_, _, _)
word_positions_loop(rows, i, acc) ==
    IF i > Len(rows) THEN acc
    ELSE word_positions_loop(rows, i + 1,
            IF confident(rows[i].conf) /\ has_text(rows[i].text)
            THEN Append(acc, word_position(rows[i])) ELSE acc)
extract_word_positions_template_processing(rows) == word_positions_loop(rows, 1, <<>>)

\* Either function: the exception of image_to_data is logged and re-raised.
extract_word_positions(fn, ocr) ==
    IF ocr.raised THEN ocr
    ELSE Ok(IF fn = "ocr_service" THEN extract_word_positions_ocr_service(ocr.val)
            ELSE extract_word_positions_template_processing(ocr.val))

WordsInit ==
    /\ MergeIdle
    /\ InferIdle
    /\ PipeIdle
    /\ ReqIdle
    /\ GuidedIdle
    /\ LabelIdle
    /\ AnnotIdle
    /\ TenantIdle
    /\ ConcIdle
    /\ SignupIdle
    /\ words_fn \in {"ocr_service", "template_processing"}
    /\ data \in {Raise("TesseractError")} \cup {Ok(l) : l \in DetectionLists(MaxWords)}
    /\ positions = None
    /\ wpc = "call"

\* One call of extract_word_positions.
WordsCall ==
    /\ wpc = "call"
    /\ positions' = extract_word_positions(words_fn, data)
    /\ wpc' = "returned"
    /\ UNCHANGED <<words_fn, data>>
    /\ UNCHANGED notWords

WordsNext == WordsCall

SpecWords == WordsInit /\ [][WordsNext]_vars

\* C13: the word observations returned are exactly the detections with a
\* confidence above 0 and a text that is not blank, in the engine's order:
\* the j-th observation is the j-th such detection.
KeptRows(rows) ==
    {i \in 1..Len(rows) : rows[i].conf > 0 /\ \E k \in 1..Len(rows[i].text) : rows[i].text[k] # " "}
C13_WordsAreTheConfidentNonBlank ==
    (wpc = "returned" /\ ~ data.raised) =>
        /\ ~ positions.raised
        /\ Len(positions.val) = Cardinality(KeptRows(data.val))
        /\ \A i \in KeptRows(data.val) :
              LET j == Cardinality({k \in KeptRows(data.val) : k <= i}) IN
              /\ positions.val[j].text = data.val[i].text
              /\ positions.val[j].x = data.val[i].left
              /\ positions.val[j].y = data.val[i].top
              /\ positions.val[j].w = data.val[i].width
              /\ positions.val[j].h = data.val[i].height

\* A call on a confident word between a word of confidence 0 and a blank one.
C13_Witness ==
    /\ wpc = "returned"
    /\ ~ data.raised
    /\ Len(data.val) = 2
    /\ data.val[1].conf = 0
    /\ data.val[2].conf > 0
    /\ data.val[2].text = <<" ", "a">>
    /\ Len(positions.val) = 1

(***************************************************************************)
(* More properties of the orchestrators.                                   *)
(***************************************************************************)
\* C14: a failure while rendering or writing the annotation of page k is
\* not fatal: the run is not ended by it and page k's extraction is kept
\* (process_template: a page result for k; process_pdf: the text of k).
C14_AnnotationFailureIsNonFatal ==
    \A i \in FailedStages({"annotate", "annotate_image"}) :
        /\ ~ (ppc = "raised" /\ failure.stage = stage_log[i][1]
                             /\ failure.page = stage_log[i][2])
        /\ Len(results) >= stage_log[i][2]

\* C15: in process_template a call of the inference backend that raises for
\* page k does not end the run: page k's result holds the sentinel, and the
\* loop goes on to page k+1 when there is one.
C15_BackendCallFailureIsPageLevel ==
    orchestrator = "process_template" =>
        \A k \in 1..Len(backend) :
            backend[k] = CallError =>
                /\ ~ (ppc = "raised" /\ failure.page = k
                                     /\ failure.stage \in {"infer", "key_values"})
                /\ Len(results) >= k
                /\ IsSentinel(Get(results[k], "ai_extraction"))
                /\ k < n_pages => idx > k

\* The backend call of page 1 raised and page 2 is being processed.
C15_Witness ==
    /\ orchestrator = "process_template"
    /\ Len(backend) = 1
    /\ backend[1] = CallError
    /\ idx = 2
    /\ ppc = "ocr"

\* The stages that may come right after a logged stage: process_template
\* runs preprocess, ocr, words, infer and, with key_values, annotate on each
\* page; process_pdf runs preprocess, ocr, annotate_image on each page and
\* extract after the last. A failed stage has a successor only where the
\* failure is swallowed (infer, annotate_image).
StageSuccessors(entry) ==
    LET stage == entry[1]
        k == entry[2]
        ok == entry[3] = "ok"
    IN CASE stage = "rasterize" /\ ok -> {<<"preprocess", 1>>, <<"extract", 0>>}
         [] stage = "preprocess" /\ ok -> {<<"ocr", k>>}
         [] stage = "ocr" /\ ok -> {<<"words", k>>, <<"annotate_image", k>>}
         [] stage = "words" /\ ok -> {<<"infer", k>>}
         [] stage = "infer" -> {<<"annotate", k>>, <<"preprocess", k + 1>>}
         [] stage = "annotate" /\ ok -> {<<"preprocess", k + 1>>}
         [] stage = "annotate_image" -> {<<"preprocess", k + 1>>, <<"extract", k>>}
         [] OTHER -> {}

StagesOf(orch) ==
    IF orch = "process_template"
    THEN {"rasterize", "preprocess", "ocr", "words", "infer", "annotate"}
    ELSE {"rasterize", "preprocess", "ocr", "annotate_image", "extract"}

\* The inference result of page k: in the page result once appended, in
\* ai_result before.
AiResultOf(k) ==
    IF Len(results) >= k THEN Get(results[k], "ai_extraction") ELSE ai_extraction

StagesInOrder ==
    /\ stage_log # <<>> => stage_log[1][1] = "rasterize"
    /\ \A i \in 1..Len(stage_log) : stage_log[i][1] \in StagesOf(orchestrator)
    /\ \A i \in 2..Len(stage_log) :
          /\ stage_log[i][1] # "rasterize"
          /\ <<stage_log[i][1], stage_log[i][2]>> \in StageSuccessors(stage_log[i - 1])
          /\ stage_log[i - 1][1] = "infer" =>
                (stage_log[i][1] = "annotate"
                    <=> Truthy(Get(AiResultOf(stage_log[i - 1][2]), "key_values")))
    /\ ppc = "annotate" => Truthy(Get(ai_extraction, "key_values"))
    /\ (orchestrator = "process_template" /\ ppc = "returned") =>
          /\ Len(results) = n_pages
          /\ \A k \in 1..n_pages : \E i \in 1..Len(stage_log) :
                stage_log[i][1] = "infer" /\ stage_log[i][2] = k
          /\ n_pages > 0 => stage_log[Len(stage_log)][2] = n_pages

\* The endpoint: a stage runs only inside the call of the orchestrator; the
\* upload is removed, and then merged over, only once the extraction has
\* returned; a result is stored only by the step that merges.
MergeAfterExtraction ==
    /\ stage_log' # stage_log => rpc = "run" /\ rpc' = "run"
    /\ (rpc' = "remove" /\ rpc # "remove") =>
          rpc = "extract" \/ (rpc = "run" /\ ppc = "returned")
    /\ (rpc' = "merge" /\ rpc # "merge") => rpc = "remove"
    /\ (stored' /\ ~ stored) => rpc = "merge"
    /\ (http_status' = 200 /\ http_status # 200) => rpc \in {"remove", "merge"}

\* C16: within a run rasterization comes first, then page by page in
\* ascending order preprocessing, text recognition, word recognition,
\* inference and, exactly when the inference result has key_values,
\* annotation; a page starts only after the page before it has ended; the
\* merge and the final result come after the last page.
C16_StagesInOrder == [] StagesInOrder /\ [][MergeAfterExtraction]_vars

\* create_template has answered for a two-page document, page 1 annotated,
\* page 2 without key_values.
C16_Witness ==
    /\ request.endpoint = "create_template"
    /\ rpc = "done"
    /\ http_status = 200
    /\ n_pages = 2
    /\ \E i \in 1..Len(stage_log) : stage_log[i][1] = "annotate" /\ stage_log[i][2] = 1
    /\ ~ \E i \in 1..Len(stage_log) : stage_log[i][1] = "annotate" /\ stage_log[i][2] = 2

(***************************************************************************)
(* The page merge and the order of its pages.                              *)
(***************************************************************************)
\* The orders in which the same page results can be delivered.
Deliveries(ps) ==
    {[i \in 1..Len(ps) |-> ps[f[i]]] : f \in Permutations(1..Len(ps))}

\* C17 as claimed: the Merged Result is the same for every order in which
\* the page results are delivered (so also for ascending page order).
C17_MergeIsOrderIndependent ==
    mpc = "done" =>
        \A q \in Deliveries(pages) : merge_pages(expected_keys, q) = Ok(merged_key_values)

\* C17 as amended: the merge takes the pages in the order of the list it is
\* given: the merged entry of an expected field is its first extraction in
\* that order whose value is not "N/A", or the default when there is none.
FirstDelivered(k) ==
    LET kvs == AllKVs(pages)
        hits == {i \in 1..Len(kvs) : Get(kvs[i], "key") = k /\ Get(kvs[i], "value") # NA}
    IN IF hits = {} THEN Dict([key |-> k, value |-> NA, position |-> None])
       ELSE LET kv == kvs[CHOOSE i \in hits : \A j \in hits : i <= j] IN
            Dict([key |-> k, value |-> Get(kv, "value"), position |-> Get(kv, "position")])
C17_DeliveryOrderDecides ==
    mpc = "done" =>
        /\ merge_pages(expected_keys, pages) = Ok(merged_key_values)
        /\ \A k \in ExpectedSet : Lookup(merged_key_values, k) = FirstDelivered(k)

\* A completed merge of two pages that would have given another result had
\* the two pages come in the other order.
C17_Witness ==
    /\ mpc = "done"
    /\ Len(pages) = 2
    /\ merge_pages(expected_keys, <<pages[2], pages[1]>>) # Ok(merged_key_values)

(***************************************************************************)
(* More properties of the endpoints.                                       *)
(***************************************************************************)
\* C18: create_extraction_result is called at most once per request, only
\* once the merge over all pages has completed, with the request's template
\* id and file name and the flattened result: one value per expected field,
\* the value of the merged entry, and neither a position nor a page result.
C18_PersistedOnceAfterMerge ==
    /\ Len(persisted) <= 1
    /\ stored => persisted # <<>>
    /\ \A c \in 1..Len(persisted) :
          /\ mpc = "done"
          /\ rpc = "done"
          /\ persisted[c].template_id = request.template_id
          /\ persisted[c].source_file_name = request.filename.stem \o request.filename.ext
          /\ Keys(persisted[c].parsed_data) = ExpectedSet
          /\ \A i \in 1..Len(persisted[c].parsed_data) :
                LET e == persisted[c].parsed_data[i] IN
                /\ ~ IsDict(e.v)
                /\ ~ IsList(e.v)
                /\ e.v = Lookup(merged_key_values, e.k).f.value
    /\ (rpc = "done" /\ mpc # "done") => persisted = <<>>

\* A request whose result, merged from two pages, was stored.
C18_Witness ==
    /\ rpc = "done"
    /\ http_status = 200
    /\ Len(pages) = 2
    /\ Len(persisted) = 1
    /\ persisted[1].committed
    /\ Lookup(persisted[1].parsed_data, Total) = Str("V1")
    /\ Lookup(persisted[1].parsed_data, InvoiceNumber) = Str("V2")

\* The bearer credential of the request resolved to the user of the database.
Resolved == request.credentials = "valid" /\ current_user = KnownUser

\* C19: the body of a protected endpoint runs only for a request whose
\* credential resolved to an existing user: no upload is written, no
\* template looked up, no stage run and nothing merged or stored for any
\* other request, which is refused with nothing on the disk.
C19_NoStepWithoutIdentity ==
    /\ rpc \in {"save", "lookup", "extract", "call", "run", "remove", "merge"} => Resolved
    /\ (created # {} \/ stage_log # <<>> \/ pages # <<>> \/ persisted # <<>>) => Resolved
    /\ (rpc = "done" /\ ~ Resolved) =>
          /\ http_status \in {401, 403, 500}
          /\ current_user = None
          /\ disk = {}
          /\ ppc = "idle"
          /\ mpc = "idle"

\* A request with the token of a user who is not in the database was refused.
C19_Witness ==
    /\ request.credentials = "unknown_user"
    /\ request.endpoint = "create_template_to_data"
    /\ rpc = "done"
    /\ http_status = 401

(***************************************************************************)
(* The label of an annotated field: annotate_from_ai_response of           *)
(* annotation_service.py and of template_processing.py, for an item that   *)
(* has a key and a complete position. Coordinates are pixels, y grows      *)
(* downwards; putText takes the baseline of the text.                      *)
(***************************************************************************)
MaxY == 30

\* position["y"] as the backend gives it, and the text heights of a key in
\* FONT_HERSHEY_SIMPLEX at scale 0.5.
BoxTops == (0 - MaxY)..MaxY
TextHeights == {10, 11, 12}

\* Mutant: the clearance is tested on y itself.
label_y_clearance_of_ten(y, text_h) ==
    IF y >= 10 THEN y - 5 ELSE y + text_h + 5

\* text_y = y - 5 if y - 5 > 10 else y + text_height + 5
label_y(y, text_h) ==
    IF y - 5 > 10 THEN y - 5 ELSE y + text_h + 5

LabelInit ==
    /\ MergeIdle
    /\ InferIdle
    /\ PipeIdle
    /\ ReqIdle
    /\ GuidedIdle
    /\ WordsIdle
    /\ AnnotIdle
    /\ TenantIdle
    /\ ConcIdle
    /\ SignupIdle
    /\ pos_y \in BoxTops
    /\ text_height \in TextHeights
    /\ text_y = 0
    /\ lpc = "draw"

\* The rectangle of the box is drawn and the label placed.
PlaceLabel ==
    /\ lpc = "draw"
    /\ text_y' = label_y(pos_y, text_height)
    /\ lpc' = "placed"
    /\ UNCHANGED <<pos_y, text_height>>
    /\ UNCHANGED notLabel

LabelNext == PlaceLabel

SpecLabel == LabelInit /\ [][LabelNext]_vars

\* C20 as claimed: the label is above the box exactly when the box top is
\* at y >= 10, below otherwise, and its y is never negative.
C20_LabelAboveFromTen ==
    lpc = "placed" =>
        /\ pos_y >= 10 <=> text_y < pos_y
        /\ text_y >= 0

\* C20 as amended: the baseline of the label is 5px above the box top
\* exactly when y - 5 > 10, that is from y = 16 on; otherwise it is
\* text_height + 5 below the box top; for a box top inside the image
\* (y >= 0) the baseline is at a y above 10.
C20_LabelAboveFromSixteen ==
    lpc = "placed" =>
        /\ pos_y >= 16 => text_y = pos_y - 5
        /\ pos_y < 16 => text_y = pos_y + text_height + 5
        /\ pos_y >= 0 => text_y > 10

\* A label placed below a box top that has 12px of clearance above it.
C20_Witness ==
    /\ lpc = "placed"
    /\ pos_y = 12
    /\ text_y > pos_y

(***************************************************************************)
(* The annotation renderer: annotate_from_ai_response of                   *)
(* annotation_service.py and of template_processing.py, statement by       *)
(* statement. An image is known by the marks drawn on it, a mark by the    *)
(* key it labels and the box it frames; an array made from another one     *)
(* either owns its pixels or shares them with it.                          *)
(***************************************************************************)
MaxItems == 2

\* d without the members named
Drop(d, names) == Dict([n \in DOMAIN d.f \ names |-> d.f[n]])

\* The positions an item may hold: null, a box with no "h", a box whose "h"
\* is null, a complete box, and a text.
PartialBox == Dict([x |-> Num(10), y |-> Num(25), w |-> Num(30)])
NullBox == Dict([x |-> Num(10), y |-> Num(25), w |-> Num(30), h |-> None])
AnnotPositions == {None, PartialBox, NullBox, BoxB, Str("10,25,30,10")}

\* The items of key_values: with a key (empty or not) or without, with a
\* value or without, with a "position" member.
AnnotItems ==
    {Drop(Dict([key |-> k, value |-> Str("42"), position |-> p]), names) :
        k \in {Str(""), Total}, p \in AnnotPositions, names \in SUBSET {"key", "value"}}

RECURSIVE ItemLists(_)
ItemLists(n) ==
    IF n = 0 THEN {<<>>}
    ELSE ItemLists(n - 1) \cup {Append(l, i) : l \in ItemLists(n - 1), i \in AnnotItems}

AnnotResponses ==
    {EmptyDict} \cup {Dict([key_values |-> List(l)]) : l \in ItemLists(MaxItems)}

\* Mutant: the renderer draws on a view of the caller's array.
copy_as_view(img) == [shares |-> TRUE, marks |-> img]

\* image.copy()
copy(img) == [shares |-> FALSE, marks |-> img]

\* cv2.rectangle and cv2.putText for an item: the array drawn on with one
\* more mark.
draw(arr, item) ==
    [arr EXCEPT !.marks = Append(@, [key |-> Get(item, "key"),
                                      position |-> Get(item, "position")])]

key_values_of_response == GetOr(ai_response, "key_values", EmptyList)

AnnotInit ==
    /\ MergeIdle
    /\ InferIdle
    /\ PipeIdle
    /\ ReqIdle
    /\ GuidedIdle
    /\ WordsIdle
    /\ LabelIdle
    /\ TenantIdle
    /\ ConcIdle
    /\ SignupIdle
    /\ image = <<>>
    /\ ai_response \in AnnotResponses
    /\ annotated_image = None
    /\ item_no = 0
    /\ warnings = <<>>
    /\ saved = {}
    /\ apc = "call"

\* annotated_image = image.copy(); key_values = ai_response.get("key_values", []);
\* "if not key_values": a warning and return.
BeginAnnotation ==
    /\ apc = "call"
    /\ annotated_image' = copy(image)
    /\ IF Truthy(key_values_of_response)
       THEN /\ apc' = "loop"
            /\ item_no' = 1
            /\ warnings' = warnings
       ELSE /\ apc' = "returned"
            /\ item_no' = item_no
            /\ warnings' = Append(warnings, ai_response)
    /\ UNCHANGED <<image, ai_response, saved>>
    /\ UNCHANGED notAnnot

\* One turn of "for item in key_values": the item is skipped with a warning,
\* or drawn; an exception is logged and re-raised.
AnnotateItem ==
    /\ apc = "loop"
    /\ item_no <= Len(key_values_of_response.xs)
    /\ LET item == key_values_of_response.xs[item_no]
           r == annotate_item(item)
       IN IF r.raised
          THEN /\ apc' = "raised"
               /\ UNCHANGED <<image, annotated_image, item_no, warnings>>
          ELSE /\ apc' = apc
               /\ item_no' = item_no + 1
               /\ IF r.val = "skip"
                  THEN /\ warnings' = Append(warnings, item)
                       /\ UNCHANGED <<image, annotated_image>>
                  ELSE /\ warnings' = warnings
                       /\ annotated_image' = draw(annotated_image, item)
                       /\ image' = IF annotated_image.shares
                                   THEN annotated_image'.marks ELSE image
    /\ UNCHANGED <<ai_response, saved>>
    /\ UNCHANGED notAnnot

\* os.makedirs and cv2.imwrite(output_path, annotated_image) after the loop
SaveAnnotated(io_ok) ==
    /\ apc = "loop"
    /\ item_no > Len(key_values_of_response.xs)
    /\ IF io_ok
       THEN /\ saved' = saved \cup {[path |-> "output_path", marks |-> annotated_image.marks]}
            /\ apc' = "returned"
       ELSE /\ saved' = saved
            /\ apc' = "raised"
    /\ UNCHANGED <<image, ai_response, annotated_image, item_no, warnings>>
    /\ UNCHANGED notAnnot

AnnotNext ==
    \/ BeginAnnotation
    \/ AnnotateItem
    \/ \E io_ok \in BOOLEAN : SaveAnnotated(io_ok)

SpecAnnot == AnnotInit /\ [][AnnotNext]_vars

(***************************************************************************)
(* Properties of the annotation renderer.                                  *)
(***************************************************************************)
\* The items the loop has passed
Handled ==
    IF apc = "call" \/ ~Truthy(key_values_of_response) THEN <<>>
    ELSE SubSeq(key_values_of_response.xs, 1, item_no - 1)

HasBox(item) ==
    /\ IsDict(Get(item, "position"))
    /\ \A c \in {"x", "y", "w", "h"} : Get(Get(item, "position"), c) # None

\* The item has a key, a value and a position with its four components.
Complete(item) ==
    /\ Truthy(Get(item, "key"))
    /\ Get(item, "value") # None
    /\ HasBox(item)

\* The item's position is null or a box, complete or not.
Positioned(item) == Get(item, "position") = None \/ IsDict(Get(item, "position"))

MarkOf(item) == [key |-> Get(item, "key"), position |-> Get(item, "position")]
MarksOf(items) == [i \in 1..Len(items) |-> MarkOf(items[i])]
Incomplete(item) == ~Complete(item)

\* C21: the renderer draws exactly the items that have a key, a value and a
\* position with four non-null components, in order; every other item
\* (null position, position missing a component, no key, no value) is
\* logged as a warning and skipped, and none of them makes the loop raise:
\* the loop goes on to the items that follow.
C21_DrawsExactlyTheComplete ==
    (apc # "call" /\ Truthy(key_values_of_response)) =>
        /\ annotated_image.marks = MarksOf(SelectSeq(Handled, Complete))
        /\ warnings = SelectSeq(Handled, Incomplete)
        /\ (apc = "raised" /\ item_no <= Len(key_values_of_response.xs))
              => ~Positioned(key_values_of_response.xs[item_no])

\* C22: annotating changes neither the inference result nor the image it is
\* given: no statement of annotate_from_ai_response alters ai_response or
\* image, so both are what they were before the call when it returns and
\* when it raises. The marks go to the renderer's own array.
C22_AnnotationLeavesInputsAlone ==
    [][image' = image /\ ai_response' = ai_response]_vars

\* The call has returned with a mark drawn and the file written, and the
\* caller's image has no mark.
C22_Witness ==
    /\ apc = "returned"
    /\ annotated_image.marks # <<>>
    /\ \E f \in saved : f.marks = annotated_image.marks
    /\ image = <<>>

(***************************************************************************)
(* The position of a value that spans several words.                       *)
(***************************************************************************)
Min(S) == CHOOSE m \in S : \A n \in S : m <= n
Max(S) == CHOOSE m \in S : \A n \in S : m >= n

\* The minimal rectangle that encloses the boxes of the words
Enclosing(words) ==
    LET left == Min({wd.x : wd \in words})
        top == Min({wd.y : wd \in words})
        right == Max({wd.x + wd.w : wd \in words})
        bottom == Max({wd.y + wd.h : wd \in words})
    IN Dict([x |-> Num(left), y |-> Num(top),
             w |-> Num(right - left), h |-> Num(bottom - top)])

\* The recognised words a value is made of
Contributing(value) ==
    {word_positions[i] : i \in {j \in 1..Len(word_positions) :
        value = TwoLineValue /\ word_positions[j].text \in {"ACME", "Limited"}}}

\* C23: in the result of the template-guided function, a value made of
\* several recognised words has one position, the minimal rectangle that
\* encloses the boxes of those words: {x:10,y:10,w:30,h:25} for the boxes
\* {x:10,y:10,w:20,h:10} and {x:10,y:25,w:30,h:10}.
C23_PositionEnclosesTheWords ==
    /\ Enclosing({WordAcme, WordLimited}) = BoxOfBoth
    /\ (gpc = "returned" /\ ~ guided_result.raised /\ ~ IsSentinel(guided_result.val)) =>
          \A i \in 1..Len(guided_result.val.f.key_values.xs) :
              LET kv == guided_result.val.f.key_values.xs[i] IN
              (IsDict(kv) /\ Cardinality(Contributing(Get(kv, "value"))) > 1)
                  => Get(kv, "position") = Enclosing(Contributing(Get(kv, "value")))

(***************************************************************************)
(* The template table: save_template and list_templates of                 *)
(* template_management.py with save_template_to_db and                     *)
(* get_all_templates_from_db of template_db_service.py. The requests come  *)
(* from authenticated users; two of them share a company.                  *)
(***************************************************************************)
MaxTemplates == 3

PlatformUsers ==
    { [platform_user_id |-> 1, company_id |-> 1],
      [platform_user_id |-> 2, company_id |-> 1],
      [platform_user_id |-> 3, company_id |-> 2] }

NoCompany == 0

\* "if company_id is not None: query = query.where(Template.company_id == company_id)"
where_company_id(rows, company_id) ==
    IF company_id # NoCompany
    THEN SelectSeq(rows, LAMBDA row : row.company_id = company_id)
    ELSE rows

\* get_all_templates_from_db(db_session, company_id=None): the summaries of
\* the rows selected.
get_all_templates_from_db(rows, company_id) ==
    LET selected == where_company_id(rows, company_id)
    IN List([i \in 1..Len(selected) |->
                [template_id |-> selected[i].template_id,
                 template_name |-> selected[i].template_name]])

\* list_templates: get_all_templates_from_db(db_session=db), the company_id
\* left at its default.
list_templates(rows, user) == get_all_templates_from_db(rows, NoCompany)

TenantInit ==
    /\ MergeIdle
    /\ InferIdle
    /\ PipeIdle
    /\ ReqIdle
    /\ GuidedIdle
    /\ WordsIdle
    /\ LabelIdle
    /\ AnnotIdle
    /\ ConcIdle
    /\ SignupIdle
    /\ template_rows = <<>>
    /\ listing_user = None
    /\ listing = None

\* save_template: a row of the user's company is added and committed, with
\* the next template_id; when json.loads(template_data) or the commit
\* fails the session is rolled back and the request answers 500.
SaveTemplate(user, name, ok) ==
    /\ Len(template_rows) < MaxTemplates
    /\ template_rows' =
         IF ok
         THEN Append(template_rows,
                     [template_id |-> Len(template_rows) + 1,
                      company_id |-> user.company_id,
                      created_by_user_id |-> user.platform_user_id,
                      template_name |-> name])
         ELSE template_rows
    /\ UNCHANGED <<listing_user, listing>>
    /\ UNCHANGED notTenant

\* list_templates for a user
ListTemplates(user) ==
    /\ listing_user' = user
    /\ listing' = list_templates(template_rows, user)
    /\ UNCHANGED template_rows
    /\ UNCHANGED notTenant

TenantNext ==
    \/ \E user \in PlatformUsers, name \in {"invoice", "form"}, ok \in BOOLEAN :
          SaveTemplate(user, name, ok)
    \/ \E user \in PlatformUsers : ListTemplates(user)

SpecTenant == TenantInit /\ [][TenantNext]_vars

\* The row of a template
RowOf(template_id) ==
    template_rows[CHOOSE i \in 1..Len(template_rows) :
                     template_rows[i].template_id = template_id]

\* C24: the list a user is given holds the templates of that user's company
\* and no others: it never holds a template of another company, so it is
\* the same whatever templates the other companies have created.
C24_ListIsOfOwnCompany ==
    IsList(listing) =>
        /\ \A i \in 1..Len(listing.xs) :
              RowOf(listing.xs[i].template_id).company_id = listing_user.company_id
        /\ listing = get_all_templates_from_db(
                        SelectSeq(template_rows,
                                  LAMBDA row : row.company_id = listing_user.company_id),
                        NoCompany)

\* C25: a request whose token is expired, has a bad signature or is
\* malformed is answered 401 by the authentication dependency, and the
\* endpoint's body is not run.
InvalidToken == request.credentials \in {"expired", "bad_signature", "malformed"}
C25_InvalidTokenAnswers401 ==
    InvalidToken =>
        /\ current_user = None
        /\ rpc \in {"auth", "done"}
        /\ rpc = "done" => http_status = 401
        /\ created = {} /\ disk = {} /\ stage_log = <<>> /\ persisted = <<>>

\* C26: parse_invoice answers 400 to every upload that reaches it with a
\* file name that does not end in ".pdf", before anything else: no file is
\* written for such a request and the pipeline is not started.
NoPdfInvoice == request.endpoint = "parse_invoice" /\ request.filename.ext # ".pdf"
C26_NonPdfInvoiceAnswers400 ==
    NoPdfInvoice =>
        /\ created = {} /\ disk = {}
        /\ ppc = "idle" /\ stage_log = <<>> /\ written = {}
        /\ rpc \in {"auth", "save", "done"}
        /\ (rpc = "done" /\ current_user # None) => http_status = 400

\* An authenticated upload of a file that is no .pdf has been answered 400.
C26_Witness ==
    /\ NoPdfInvoice
    /\ Resolved
    /\ rpc = "done"
    /\ http_status = 400

(***************************************************************************)
(* The page results of process_template.                                   *)
(***************************************************************************)
\* C27: a run of process_template that returns, on a document of N pages,
\* returns exactly N page results, numbered 1, 2, ..., N in that order, the
\* k-th holding the extraction made from the k-th page; while it runs the
\* results so far are those of pages 1, 2, ... in order.
C27_OneResultPerPageInOrder ==
    orchestrator = "process_template" =>
        /\ \A k \in 1..Len(results) :
              /\ Get(results[k], "page") = Num(k)
              /\ k <= Len(backend)
              /\ Get(results[k], "ai_extraction")
                    = extract_key_values_with_ai_template_processing(backend[k]).val
        /\ Len(results) <= idx
        /\ ppc = "returned" =>
              /\ returned = Dict([pages |-> List(results)])
              /\ Len(results) = document.n
              /\ document.n = n_pages

\* A run on two pages has returned, the two pages with different extractions.
C27_Witness ==
    /\ orchestrator = "process_template"
    /\ ppc = "returned"
    /\ document.n = 2
    /\ Len(returned.f.pages.xs) = 2
    /\ Get(returned.f.pages.xs[1], "ai_extraction")
          # Get(returned.f.pages.xs[2], "ai_extraction")

\* C29: in the page results of process_template every artifact reference
\* that is not null (annotated_image, ai_annotated_image) names a file the
\* run has written for that page, and ai_annotated_image is null exactly
\* when the page's inference result has no key_values.
ArtifactsOf(page_result) ==
    {Get(page_result, "annotated_image"), Get(page_result, "ai_annotated_image")} \ {None}

C29_ArtifactsWereWritten ==
    orchestrator = "process_template" =>
        \A k \in 1..Len(results) :
            /\ ArtifactsOf(results[k]) \subseteq written
            /\ ArtifactsOf(results[k]) \subseteq {annotated_path(k), ai_annotated_path(k)}
            /\ Get(results[k], "ai_annotated_image") = None
                  <=> ~Truthy(Get(Get(results[k], "ai_extraction"), "key_values"))

(***************************************************************************)
(* Concurrent requests to create_template and create_template_to_data of   *)
(* template_upload.py, served by one event loop: a request gives way to    *)
(* another one only where it awaits input or the database (file.read(),    *)
(* get_template_metadata, create_extraction_result). The extraction is     *)
(* taken to run without giving way. An upload's content is known by the    *)
(* request that sent it; the requests are authenticated.                   *)
(***************************************************************************)
MaxRequests == 2

Uploads ==
    {[endpoint |-> "create_template", template_name |-> n] :
        n \in {"invoice", "form"}}
    \cup {[endpoint |-> "create_template_to_data", template_id |-> id, filename |-> f] :
            id \in TemplateIds, f \in Filenames}

\* The path a request writes its upload to.
upload_path(r) ==
    file_path(IF uploads[r].endpoint = "create_template"
              THEN [endpoint |-> "create_template", template_name |-> uploads[r].template_name]
              ELSE uploads[r])

\* open(file_path, "wb").write(contents): the file is created or replaced.
write_file(fs, path, content) ==
    {f \in fs : f.path # path} \cup {[path |-> path, content |-> content]}

\* os.remove(file_path)
remove_file(fs, path) == {f \in fs : f.path # path}

exists(fs, path) == \E f \in fs : f.path = path
content_of(fs, path) == (CHOOSE f \in fs : f.path = path).content

ConcInit ==
    /\ MergeIdle
    /\ InferIdle
    /\ PipeIdle
    /\ ReqIdle
    /\ GuidedIdle
    /\ WordsIdle
    /\ LabelIdle
    /\ AnnotIdle
    /\ TenantIdle
    /\ SignupIdle
    /\ uploads \in [1..MaxRequests -> Uploads]
    /\ cpc = [r \in 1..MaxRequests |-> "save"]
    /\ files = {}
    /\ processed = [r \in 1..MaxRequests |-> 0]
    /\ answers = [r \in 1..MaxRequests |-> 0]

\* extract_data_using_template(file_path, ...): the extraction reads the
\* document at file_path, and raises when there is none or a stage fails.
extract_data_using_template(fs, path, ok) ==
    IF ~exists(fs, path) THEN Raise("FileNotFoundError")
    ELSE IF ~ok THEN Raise("Exception")
    ELSE Ok(content_of(fs, path))

Finish(r, code) ==
    /\ cpc' = [cpc EXCEPT ![r] = "done"]
    /\ answers' = [answers EXCEPT ![r] = code]

\* create_template from the return of file.read(): the upload is written,
\* processed and, when the processing returned, removed.
ServeCreateTemplate(r, ok) ==
    /\ uploads[r].endpoint = "create_template"
    /\ cpc[r] = "save"
    /\ processed' = [processed EXCEPT ![r] = r]
    /\ files' = IF ok THEN remove_file(files, upload_path(r))
                ELSE write_file(files, upload_path(r), r)
    /\ Finish(r, IF ok THEN 200 ELSE 500)
    /\ UNCHANGED uploads
    /\ UNCHANGED notConc

\* create_template_to_data from the return of file.read() to
\* "await get_template_metadata(...)": the upload is written.
SaveUploadThenAwait(r) ==
    /\ uploads[r].endpoint = "create_template_to_data"
    /\ cpc[r] = "save"
    /\ files' = write_file(files, upload_path(r), r)
    /\ cpc' = [cpc EXCEPT ![r] = "lookup"]
    /\ UNCHANGED <<uploads, processed, answers>>
    /\ UNCHANGED notConc

\* create_template_to_data from the return of get_template_metadata to
\* "await create_extraction_result(...)": 404 (answered 500) without a
\* template; the extraction reads the file at file_path, and fails when
\* there is none; when it returned the file is removed.
ExtractThenAwait(r, ok) ==
    /\ cpc[r] = "lookup"
    /\ IF get_template_metadata(uploads[r].template_id).val = None
       THEN /\ Finish(r, 500)
            /\ UNCHANGED <<files, processed>>
       ELSE LET template_data == extract_data_using_template(files, upload_path(r), ok)
            IN IF template_data.raised
               THEN /\ Finish(r, 500)
                    /\ files' = files
                    /\ processed' = [processed EXCEPT ![r] =
                                        IF exists(files, upload_path(r))
                                        THEN content_of(files, upload_path(r)) ELSE @]
               ELSE /\ processed' = [processed EXCEPT ![r] = template_data.val]
                    /\ files' = remove_file(files, upload_path(r))
                    /\ cpc' = [cpc EXCEPT ![r] = "store"]
                    /\ answers' = answers
    /\ UNCHANGED uploads
    /\ UNCHANGED notConc

\* create_template_to_data from the return of create_extraction_result
StoreThenAnswer(r, db_ok) ==
    /\ cpc[r] = "store"
    /\ Finish(r, IF db_ok THEN 200 ELSE 500)
    /\ UNCHANGED <<uploads, files, processed>>
    /\ UNCHANGED notConc

ConcNext ==
    \E r \in 1..MaxRequests :
        \/ \E ok \in BOOLEAN : ServeCreateTemplate(r, ok)
        \/ SaveUploadThenAwait(r)
        \/ \E ok \in BOOLEAN : ExtractThenAwait(r, ok)
        \/ \E db_ok \in BOOLEAN : StoreThenAnswer(r, db_ok)

SpecConcurrent == ConcInit /\ [][ConcNext]_vars

\* C28: the upload a request processes is its own, and while a request
\* still needs its upload (it has written it and its extraction has not
\* read it yet) the file is there with that request's content: no other
\* request has replaced or removed it.
C28_UploadsArePrivate ==
    \A r \in DOMAIN uploads :
        /\ processed[r] \in {0, r}
        /\ cpc[r] = "lookup" =>
              /\ exists(files, upload_path(r))
              /\ content_of(files, upload_path(r)) = r

(***************************************************************************)
(* signup and login of api/endpoints/auth.py. Requests are served one      *)
(* after the other; a commit may fail (the database is unreachable, the    *)
(* connection is lost), and then the exception ends the request with 500.  *)
(***************************************************************************)
MaxSignups == 3

Emails == {"ann@example.com", "bob@example.com"}
Passwords == {"secret", "guess"}

\* utils/security.py: the hash is known by the password it was made from.
hash_password(password) == [hash_of |-> password]
verify_password(password, password_hash) == password_hash.hash_of = password

\* select(PlatformUser).filter(PlatformUser.email == email), .scalars().first()
user_by_email(email) ==
    IF \E u \in platform_users : u.email = email
    THEN CHOOSE u \in platform_users : u.email = email
    ELSE None

\* select(UserCredentials).filter(UserCredentials.platform_user_id == id)
credentials_of(id) == {c \in user_credentials : c.platform_user_id = id}

SignupInit ==
    /\ MergeIdle
    /\ InferIdle
    /\ PipeIdle
    /\ ReqIdle
    /\ GuidedIdle
    /\ WordsIdle
    /\ LabelIdle
    /\ AnnotIdle
    /\ TenantIdle
    /\ ConcIdle
    /\ platform_users = {}
    /\ user_credentials = {}
    /\ signup_data = None
    /\ new_user = None
    /\ spc = "ready"
    /\ auth_status = 0
    /\ served = 0

\* POST /auth/signup arrives.
SignupRequest(email, password) ==
    /\ spc = "ready"
    /\ served < MaxSignups
    /\ served' = served + 1
    /\ signup_data' = [email |-> email, password |-> password]
    /\ new_user' = None
    /\ spc' = "check_email"
    /\ auth_status' = 0
    /\ UNCHANGED <<platform_users, user_credentials>>
    /\ UNCHANGED notSignup

\* "if existing_user: raise HTTPException(400, "Email already in use")"
CheckEmail ==
    /\ spc = "check_email"
    /\ IF user_by_email(signup_data.email) # None
       THEN spc' = "ready" /\ auth_status' = 400
       ELSE spc' = "commit_user" /\ auth_status' = auth_status
    /\ UNCHANGED <<platform_users, user_credentials, signup_data, new_user, served>>
    /\ UNCHANGED notSignup

\* db.add(new_user); await db.commit(); await db.refresh(new_user)
CommitUser(ok) ==
    /\ spc = "commit_user"
    /\ IF ok
       THEN LET row == [platform_user_id |-> Cardinality(platform_users) + 1,
                        email |-> signup_data.email]
            IN /\ platform_users' = platform_users \cup {row}
               /\ new_user' = row
               /\ spc' = "commit_credentials"
               /\ auth_status' = auth_status
       ELSE /\ spc' = "ready"
            /\ auth_status' = 500
            /\ UNCHANGED <<platform_users, new_user>>
    /\ UNCHANGED <<user_credentials, signup_data, served>>
    /\ UNCHANGED notSignup

\* db.add(credentials); await db.commit(); await db.refresh(credentials);
\* return (201)
CommitCredentials(ok) ==
    /\ spc = "commit_credentials"
    /\ IF ok
       THEN /\ user_credentials' = user_credentials \cup
                 {[platform_user_id |-> new_user.platform_user_id,
                   password_hash |-> hash_password(signup_data.password)]}
            /\ auth_status' = 201
       ELSE /\ user_credentials' = user_credentials
            /\ auth_status' = 500
    /\ spc' = "ready"
    /\ UNCHANGED <<platform_users, signup_data, new_user, served>>
    /\ UNCHANGED notSignup

\* login: 401 without a user of this email, without credentials or with a
\* password that does not verify; 200 with a token otherwise.
login(email, password) ==
    LET user == user_by_email(email) IN
    IF user = None THEN 401
    ELSE LET credentials == credentials_of(user.platform_user_id) IN
         IF credentials = {} THEN 401
         ELSE IF ~verify_password(password, (CHOOSE c \in credentials : TRUE).password_hash)
         THEN 401
         ELSE 200

\* POST /auth/login, from its arrival to its response.
Login(email, password) ==
    /\ spc = "ready"
    /\ served < MaxSignups
    /\ served' = served + 1
    /\ signup_data' = [email |-> email, password |-> password]
    /\ auth_status' = login(email, password)
    /\ UNCHANGED <<platform_users, user_credentials, new_user, spc>>
    /\ UNCHANGED notSignup

SignupNext ==
    \/ \E email \in Emails, password \in Passwords : SignupRequest(email, password)
    \/ CheckEmail
    \/ \E ok \in BOOLEAN : CommitUser(ok)
    \/ \E ok \in BOOLEAN : CommitCredentials(ok)
    \/ \E email \in Emails, password \in Passwords : Login(email, password)

SpecSignup == SignupInit /\ [][SignupNext]_vars

\* C30: after any signup request, whether it succeeded or failed, every
\* stored user has exactly one stored credentials record: no registered
\* email is left that can neither log in nor sign up again.
C30_EveryUserHasCredentials ==
    spc = "ready" =>
        \A u \in platform_users : Cardinality(credentials_of(u.platform_user_id)) = 1

====
